---- MODULE Spec2Model ----
(***************************************************************************)
(* A model of the foundation planner (src/src/App.jsx): the placement and  *)
(* collision kernel, the editing gestures, the undo history and the share  *)
(* link codec.                                                             *)
(*                                                                         *)
(* Numbers.  The program computes in floating point on world units.  The   *)
(* model computes in integers on "ticks": one world unit is TicksPerUnit   *)
(* ticks, so that halves, thirds and quarters of a unit are exact.  A      *)
(* division whose result is not a whole tick is rounded down to the tick.  *)
(* Comparisons against a length are made on squares or cross products so   *)
(* that no square root is needed; they are exact.                          *)
(***************************************************************************)
EXTENDS Integers, Sequences, FiniteSets, TLC

(***************************************************************************)
(* Program constants (App.jsx lines 7-13, 54-61).                          *)
(***************************************************************************)
SHAPE_SIZE == 50
SNAP_THRESHOLD == 100
EDGE_TOLERANCE == 2
CELL_SIZE == 50
CORNER_STEPS == 3
MAX_STAKES == 5
ITEM_GRID_SIZE == 50
HISTORY_KEEP == 49
ARC_SEGMENTS == 12
STAKE_COUNTDOWN == 5

\* Ticks per world unit: thirds (stepped corners) and quarters (the mean of
\* four vertices) of a unit are whole ticks.
TicksPerUnit == CORNER_STEPS * 4

U == TicksPerUnit

\* null for a string-valued cell; an optional value of another type is the
\* empty sequence (null) or a one-element sequence; a null id is NoId.
NULL == "null"

None == <<>>

Some(v) == <<v>>

NoId == -1

\* The parent id 'main' of a claimed area (written 0 on the wire, line 1233).
MAIN == 0

\* TRI_HEIGHT = SHAPE_SIZE * sqrt(3) / 2 = 43.30 units, in ticks.
TRI_HEIGHT == 520

Abs(n) == IF n < 0 THEN -n ELSE n

Pt(px, py) == [x |-> px, y |-> py]

\* A point given in world units.
UPt(ux, uy) == [x |-> ux * U, y |-> uy * U]

RECURSIVE SumX(_)
SumX(vs) == IF vs = <<>> THEN 0 ELSE Head(vs).x + SumX(Tail(vs))

RECURSIVE SumY(_)
SumY(vs) == IF vs = <<>> THEN 0 ELSE Head(vs).y + SumY(Tail(vs))

\* verts.reduce((s, v) => s + v.x, 0) / verts.length
MeanX(vs) == SumX(vs) \div Len(vs)

MeanY(vs) == SumY(vs) \div Len(vs)

\* Math.round of a tick value to whole units, result in units:
\* Math.round(x) = floor(x + 0.5).
MathRound(t) == (2 * t + U) \div (2 * U)

\* Math.hypot(dx, dy) < r, with r in ticks (no square root: both sides >= 0).
HypotLess(dx, dy, r) == dx * dx + dy * dy < r * r

\* Math.atan2(dy, dx) * 180 / Math.PI, in whole degrees, for the directions
\* the model draws (multiples of 90 degrees).
Atan2Deg(dy, dx) ==
  CASE dy = 0 /\ dx >= 0 -> 0
    [] dx = 0 /\ dy > 0 -> 90
    [] dy = 0 /\ dx < 0 -> 180
    [] dx = 0 /\ dy < 0 -> -90

\* cos and sin of a multiple of 90 degrees.
Cos90(deg) ==
  CASE deg % 360 = 0 -> 1
    [] deg % 360 = 90 -> 0
    [] deg % 360 = 180 -> -1
    [] deg % 360 = 270 -> 0

Sin90(deg) ==
  CASE deg % 360 = 0 -> 0
    [] deg % 360 = 90 -> 1
    [] deg % 360 = 180 -> 0
    [] deg % 360 = 270 -> -1

Next1(i, n) == (i % n) + 1

(***************************************************************************)
(* Vertex calculations.                                                    *)
(***************************************************************************)
\* getFreeVertices(px, py, shapeType)
getFreeVertices(px, py, shapeType) ==
  LET h == (SHAPE_SIZE * U) \div 2 IN
  IF shapeType \in {"square", "stair"}
  THEN << Pt(px - h, py - h), Pt(px + h, py - h), Pt(px + h, py + h), Pt(px - h, py + h) >>
  ELSE IF shapeType = "corner"
  THEN << Pt(px - h, py - h), Pt(px + h, py - h), Pt(px - h, py + h) >>
  ELSE << Pt(px, py - (TRI_HEIGHT * 2) \div 3),
          Pt(px + h, py + TRI_HEIGHT \div 3),
          Pt(px - h, py + TRI_HEIGHT \div 3) >>

\* getVertices(shape) for a shape without cached vertices: the local vertices
\* of the kind, turned by shape.rotation (a multiple of 90 degrees) about the
\* local origin and moved to (shape.x, shape.y).
getVertices(shape) ==
  LET h == (SHAPE_SIZE * U) \div 2
      apexY == -((TRI_HEIGHT * 2) \div 3)
      baseY == TRI_HEIGHT \div 3
      localVerts ==
        IF shape.type \in {"square", "stair"}
        THEN << Pt(-h, -h), Pt(h, -h), Pt(h, h), Pt(-h, h) >>
        ELSE IF shape.type = "corner"
        THEN << Pt(-h, -h), Pt(h, -h), Pt(-h, h) >>
        ELSE << Pt(0, apexY), Pt(h, baseY), Pt(-h, baseY) >>
      c == Cos90(shape.rotation)
      s == Sin90(shape.rotation)
  IN [i \in 1..Len(localVerts) |->
        Pt(shape.x + localVerts[i].x * c - localVerts[i].y * s,
           shape.y + localVerts[i].x * s + localVerts[i].y * c)]

\* offsetVertices(verts, dx, dy)
offsetVertices(verts, dx, dy) ==
  [i \in 1..Len(verts) |-> Pt(verts[i].x + dx, verts[i].y + dy)]

\* rotateVertsAroundPoint(verts, cx, cy, angleDeg)
rotateVertsAroundPoint(verts, cx, cy, angleDeg) ==
  LET c == Cos90(angleDeg)
      s == Sin90(angleDeg)
  IN [i \in 1..Len(verts) |->
        Pt(cx + (verts[i].x - cx) * c - (verts[i].y - cy) * s,
           cy + (verts[i].x - cx) * s + (verts[i].y - cy) * c)]

\* rotateVertices(verts, angleDeg): about the vertices' own centroid.
rotateVertices(verts, angleDeg) ==
  rotateVertsAroundPoint(verts, MeanX(verts), MeanY(verts), angleDeg)

\* The rotation verticesToShape derives from a vertex list.
RotationOf(verts, shapeType) ==
  IF shapeType \in {"square", "stair"}
  THEN Atan2Deg(verts[2].y - verts[1].y, verts[2].x - verts[1].x) + 180
  ELSE IF shapeType = "corner"
  THEN Atan2Deg(verts[2].y - verts[1].y, verts[2].x - verts[1].x)
  ELSE Atan2Deg(verts[1].y - MeanY(verts), verts[1].x - MeanX(verts)) + 90

\* verticesToShape(verts, shapeType, id, building)
verticesToShape(verts, shapeType, id, building) ==
  [id |-> id, type |-> shapeType, x |-> MeanX(verts), y |-> MeanY(verts),
   rotation |-> RotationOf(verts, shapeType), building |-> building,
   verts |-> verts]

(***************************************************************************)
(* Overlap detection.                                                      *)
(***************************************************************************)
\* The "on edge" test of pointStrictlyInPolygon for the edge v1 -> v2:
\* t in [-0.01, 1.01] and the distance to the edge's line below EDGE_TOLERANCE.
\* The distance is |cross| / len; |cross| < tol * len is decided on squares,
\* after the bound len <= |dx| + |dy| has ruled the far points out.
OnEdge(px, py, v1, v2) ==
  LET dx == v2.x - v1.x
      dy == v2.y - v1.y
      lenSq == dx * dx + dy * dy
      dot == (px - v1.x) * dx + (py - v1.y) * dy
      q == Abs((px - v1.x) * dy - (py - v1.y) * dx)
      tol == EDGE_TOLERANCE * U
  IN /\ 1000 * lenSq > U * U
     /\ 100 * dot >= -lenSq
     /\ 100 * dot <= 101 * lenSq
     /\ q < tol * (Abs(dx) + Abs(dy))
     /\ q * q < tol * tol * lenSq

\* One step of the ray casting loop: does edge (verts[j] -> verts[i]) toggle?
RayToggles(px, py, vi, vj) ==
  /\ (vi.y > py) # (vj.y > py)
  /\ IF vj.y - vi.y > 0
     THEN (px - vi.x) * (vj.y - vi.y) < (vj.x - vi.x) * (py - vi.y)
     ELSE (px - vi.x) * (vj.y - vi.y) > (vj.x - vi.x) * (py - vi.y)

\* pointInPolygon(px, py, verts): ray casting only.
pointInPolygon(px, py, verts) ==
  LET n == Len(verts)
      prev(i) == IF i = 1 THEN n ELSE i - 1
  IN Cardinality({i \in 1..n : RayToggles(px, py, verts[i], verts[prev(i)])}) % 2 = 1

\* A mutation of pointStrictlyInPolygon: no edge tolerance.
pointStrictlyInPolygon_noTolerance(px, py, verts) == pointInPolygon(px, py, verts)

\* pointStrictlyInPolygon(px, py, verts)
pointStrictlyInPolygon(px, py, verts) ==
  /\ ~ \E i \in 1..Len(verts) : OnEdge(px, py, verts[i], verts[Next1(i, Len(verts))])
  /\ pointInPolygon(px, py, verts)

Cross(o, a, b) == (a.x - o.x) * (b.y - o.y) - (a.y - o.y) * (b.x - o.x)

\* d > eps and d < -eps with eps = 0.01 (square units).
GtEps(d) == 100 * d > U * U

LtNegEps(d) == 100 * d < -(U * U)

\* A mutation of segmentsIntersect: no dead zone, touching counts as crossing.
segmentsIntersect_touching(a1, a2, b1, b2) ==
  LET d1 == Cross(b1, b2, a1)
      d2 == Cross(b1, b2, a2)
      d3 == Cross(a1, a2, b1)
      d4 == Cross(a1, a2, b2)
  IN /\ (d1 >= 0 /\ d2 <= 0) \/ (d1 <= 0 /\ d2 >= 0)
     /\ (d3 >= 0 /\ d4 <= 0) \/ (d3 <= 0 /\ d4 >= 0)

\* segmentsIntersect(a1, a2, b1, b2)
segmentsIntersect(a1, a2, b1, b2) ==
  LET d1 == Cross(b1, b2, a1)
      d2 == Cross(b1, b2, a2)
      d3 == Cross(a1, a2, b1)
      d4 == Cross(a1, a2, b2)
  IN /\ (GtEps(d1) /\ LtNegEps(d2)) \/ (LtNegEps(d1) /\ GtEps(d2))
     /\ (GtEps(d3) /\ LtNegEps(d4)) \/ (LtNegEps(d3) /\ GtEps(d4))

(***************************************************************************)
(* Corner collision polygon.                                               *)
(***************************************************************************)
BuildingNames == <<"atreides", "harkonnen", "choamShelter", "choamFacility">>

\* BUILDING_TYPES[b].cornerStyle
CornerStyleOf(building) ==
  CASE building = "atreides" -> "stepped"
    [] building = "harkonnen" -> "round"
    [] building = "choamShelter" -> "round"
    [] building = "choamFacility" -> "diagonal"
    [] OTHER -> "round"

RECURSIVE SteppedPoints(_, _, _, _, _)
SteppedPoints(cur, d1, d2, i, acc) ==
  IF i = CORNER_STEPS THEN acc
  ELSE LET a == Pt(cur.x + d2.x \div CORNER_STEPS, cur.y + d2.y \div CORNER_STEPS)
           b == Pt(a.x - d1.x \div CORNER_STEPS, a.y - d1.y \div CORNER_STEPS)
       IN SteppedPoints(b, d1, d2, i + 1, acc \o <<a, b>>)

\* Math.cos(angle) * SHAPE_SIZE in ticks, for an angle of k * 7.5 degrees: the
\* arc of a right-angled corner is cut into ARC_SEGMENTS steps of 7.5 degrees.
ArcCos(k) ==
  LET quarter == <<600, 595, 580, 554, 520, 476, 424, 365, 300, 230, 155, 78, 0>>
      m == k % 48
  IN IF m <= 12 THEN quarter[m + 1]
     ELSE IF m <= 24 THEN -quarter[24 - m + 1]
     ELSE IF m <= 36 THEN -quarter[m - 24 + 1]
     ELSE quarter[48 - m + 1]

ArcSin(k) == ArcCos(k - 12)

\* The loop "for (let i = 0; i <= ARC_SEGMENTS; i++) arcPoints.push(...)";
\* angle1 and angleDiff in degrees (multiples of 90).
RECURSIVE ArcPoints(_, _, _, _, _)
ArcPoints(corner, angle1, angleDiff, i, acc) ==
  IF i > ARC_SEGMENTS THEN acc
  ELSE LET k == (angle1 * ARC_SEGMENTS + i * angleDiff) \div 90
       IN ArcPoints(corner, angle1, angleDiff, i + 1,
                    Append(acc, Pt(corner.x + ArcCos(k), corner.y + ArcSin(k))))

\* A mutation of getCornerCollisionVerts: the round polygon is the arc alone,
\* without the corner vertex.
getCornerCollisionVerts_arcOnly(corner, end1, end2, cornerStyle) ==
  LET d1 == Pt(end1.x - corner.x, end1.y - corner.y)
      d2 == Pt(end2.x - corner.x, end2.y - corner.y)
      angle1 == Atan2Deg(d1.y, d1.x)
      raw == Atan2Deg(d2.y, d2.x) - angle1
      angleDiff == IF raw > 180 THEN raw - 360 ELSE IF raw < -180 THEN raw + 360 ELSE raw
  IN IF cornerStyle = "diagonal"
     THEN << corner, end1,
             Pt(end1.x + (d2.x * 27) \div 100, end1.y + (d2.y * 27) \div 100),
             Pt(end2.x + (d1.x * 27) \div 100, end2.y + (d1.y * 27) \div 100),
             end2 >>
     ELSE IF cornerStyle = "stepped"
     THEN SteppedPoints(end1, d1, d2, 0, <<corner, end1>>)
     ELSE ArcPoints(corner, angle1, angleDiff, 0, <<>>)

\* getCornerCollisionVerts(corner, end1, end2, cornerStyle)
\* (DIAGONAL_FLAT_RATIO = 0.27).
getCornerCollisionVerts(corner, end1, end2, cornerStyle) ==
  LET d1 == Pt(end1.x - corner.x, end1.y - corner.y)
      d2 == Pt(end2.x - corner.x, end2.y - corner.y)
      angle1 == Atan2Deg(d1.y, d1.x)
      raw == Atan2Deg(d2.y, d2.x) - angle1
      angleDiff == IF raw > 180 THEN raw - 360 ELSE IF raw < -180 THEN raw + 360 ELSE raw
  IN IF cornerStyle = "diagonal"
     THEN << corner, end1,
             Pt(end1.x + (d2.x * 27) \div 100, end1.y + (d2.y * 27) \div 100),
             Pt(end2.x + (d1.x * 27) \div 100, end2.y + (d1.y * 27) \div 100),
             end2 >>
     ELSE IF cornerStyle = "stepped"
     THEN SteppedPoints(end1, d1, d2, 0, <<corner, end1>>)
     ELSE ArcPoints(corner, angle1, angleDiff, 0, <<corner>>)

\* getCollisionVertices(shape)
getCollisionVertices(shape) ==
  IF shape.type = "corner"
  THEN getCornerCollisionVerts(shape.verts[1], shape.verts[2], shape.verts[3],
                               CornerStyleOf(shape.building))
  ELSE shape.verts

(***************************************************************************)
(* The state of the application (the useState cells of App).               *)
(***************************************************************************)
VARIABLES
  currentFloor,        \* index of the active floor
  allFloorShapes,      \* floor -> sequence of shapes ([] for a floor never used)
  allFloorItems,       \* floor -> sequence of placed items
  shapesHistory,       \* the unified undo history
  buildingType,
  leftClickShape,
  rightClickShape,
  middleClickAction,
  fiefMode,
  fiefType,
  fiefWidth,           \* in half cells (5.5 cells = 11)
  fiefHeight,          \* in half cells
  fiefPosition,        \* None or Some(point)
  fiefPadding,
  stakesInventory,
  claimedAreas,
  placedStakes,        \* the pending claims, each with its countdown
  draggingStake,       \* a stake is being dragged from the inventory
  stakeTimer,          \* the 100 ms interval of the countdown effect is active
  isRotating,
  rotatingButton,
  rotationAngle,
  baseVertices,
  rotationShapeType,
  rotationStartX,      \* screen x where the rotation gesture began
  gridEnabled,
  isLocked,
  isDraggingGroup,
  isRotatingGroup,
  draggedGroupIds,     \* the ids of the group in the gesture, as a set
  dragStart,
  dragOffset,
  groupRotationAngle,
  groupRotationCenter,
  clipboard,
  mousePosition,       \* mousePositionRef.current, world coordinates
  itemSidebarOpen,     \* itemMode follows it (effect at lines 1338-1352)
  selectedItemId,
  isDraggingPlacedItem,
  itemDragOffset,
  itemMoved,           \* the item drag in progress has already moved its item
  savedPatterns,
  now,                 \* Date.now()
  probe,               \* the last direct call of checkOverlap and its result
  wire,                \* the share link payload last produced or opened
  loadStatus,          \* outcome of loading a share link
  sent,                \* the design that was encoded into wire
  undoLog,             \* the designs that preceded each change not yet undone
  events               \* the number of user events handled in the session

designVars == <<currentFloor, allFloorShapes, allFloorItems>>

settingVars == <<buildingType, leftClickShape, rightClickShape, middleClickAction>>

fiefVars == <<fiefMode, fiefType, fiefWidth, fiefHeight, fiefPosition, fiefPadding,
              stakesInventory, claimedAreas, placedStakes, draggingStake, stakeTimer>>

placeVars == <<isRotating, rotatingButton, rotationAngle, baseVertices, rotationShapeType,
              rotationStartX, gridEnabled>>

groupVars == <<isDraggingGroup, isRotatingGroup, draggedGroupIds, dragStart, dragOffset,
               groupRotationAngle, groupRotationCenter>>

itemVars == <<itemSidebarOpen, selectedItemId, isDraggingPlacedItem, itemDragOffset,
             itemMoved>>

codecVars == <<wire, loadStatus, sent>>

vars == <<designVars, shapesHistory, settingVars, fiefVars, placeVars, isLocked, groupVars,
          clipboard, mousePosition, itemVars, savedPatterns, now, probe, codecVars, undoLog,
          events>>

\* shapes = allFloorShapes[currentFloor] || []
shapes == allFloorShapes[currentFloor]

\* placedItems = allFloorItems[currentFloor] || []
placedItems == allFloorItems[currentFloor]

itemMode == itemSidebarOpen

\* A mutation of the countdown effect: the interval is never cleared.
stakeTimerEffect_noCleanup(newStakes) ==
  IF Len(newStakes) # Len(placedStakes) THEN TRUE ELSE stakeTimer

\* The stake countdown effect (dependency placedStakes.length), run after a
\* handler that leaves newStakes in placedStakes: when the length has changed
\* the cleanup clears the interval and the effect sets a new one unless the
\* list is empty.
stakeTimerEffect(newStakes) ==
  IF Len(newStakes) # Len(placedStakes) THEN Len(newStakes) > 0 ELSE stakeTimer

(***************************************************************************)
(* Buildable area.                                                         *)
(***************************************************************************)
\* The rectangle of a claim beside its parent rectangle (the switch on
\* claim.direction in getBuildableAreas).
ClaimRect(claim, parent, fiefW, fiefH) ==
  CASE claim.direction = "top" ->
         [id |-> claim.id, x |-> parent.x, y |-> parent.y - fiefH, width |-> fiefW, height |-> fiefH]
    [] claim.direction = "bottom" ->
         [id |-> claim.id, x |-> parent.x, y |-> parent.y + parent.height, width |-> fiefW, height |-> fiefH]
    [] claim.direction = "left" ->
         [id |-> claim.id, x |-> parent.x - fiefW, y |-> parent.y, width |-> fiefW, height |-> fiefH]
    [] claim.direction = "right" ->
         [id |-> claim.id, x |-> parent.x + parent.width, y |-> parent.y, width |-> fiefW, height |-> fiefH]

RECURSIVE ClaimedRects(_, _, _, _)
ClaimedRects(claims, areas, fiefW, fiefH) ==
  IF claims = <<>> THEN areas
  ELSE LET c == Head(claims)
           ps == {i \in 1..Len(areas) : areas[i].id = c.parentId}
       IN IF ps = {} \/ c.direction \notin {"top", "bottom", "left", "right"}
          THEN ClaimedRects(Tail(claims), areas, fiefW, fiefH)
          ELSE LET p == areas[CHOOSE i \in ps : \A j \in ps : j <= i]
               IN ClaimedRects(Tail(claims), Append(areas, ClaimRect(c, p, fiefW, fiefH)),
                               fiefW, fiefH)

\* getBuildableAreas().areas, for fiefMode with a fief position.
getBuildableAreas ==
  LET fiefW == (fiefWidth * CELL_SIZE * U) \div 2
      fiefH == (fiefHeight * CELL_SIZE * U) \div 2
      mainFief == [id |-> MAIN, x |-> fiefPosition[1].x, y |-> fiefPosition[1].y,
                   width |-> fiefW, height |-> fiefH]
  IN ClaimedRects(claimedAreas, <<mainFief>>, fiefW, fiefH)

\* isPointInBuildableArea(px, py); fiefPadding is a percentage, kept in tenths
\* of a percent (the slider moves in steps of 0.5).
isPointInBuildableArea(px, py) ==
  \/ ~fiefMode
  \/ LET areas == getBuildableAreas
     IN \E i \in 1..Len(areas) :
          LET a == areas[i]
              padX == (a.width * fiefPadding) \div 1000
              padY == (a.height * fiefPadding) \div 1000
          IN /\ px >= a.x - padX /\ px <= a.x + a.width + padX
             /\ py >= a.y - padY /\ py <= a.y + a.height + padY

\* isShapeInBuildableArea(verts)
isShapeInBuildableArea(verts) ==
  \/ ~fiefMode
  \/ \A i \in 1..Len(verts) : isPointInBuildableArea(verts[i].x, verts[i].y)

(***************************************************************************)
(* checkOverlap                                                            *)
(***************************************************************************)
\* The duplicate guard of checkOverlap against one existing shape.
CoincidentWith(newVerts, shape) ==
  LET existingVerts == getCollisionVertices(shape)
  IN /\ HypotLess(MeanX(newVerts) - MeanX(existingVerts),
                  MeanY(newVerts) - MeanY(existingVerts), (SHAPE_SIZE * U) \div 2)
     /\ \E i \in 1..Len(newVerts) : \E j \in 1..Len(shape.verts) :
          HypotLess(newVerts[i].x - shape.verts[j].x, newVerts[i].y - shape.verts[j].y,
                    EDGE_TOLERANCE * 2 * U)

\* The containment and crossing tests between two collision polygons.
PolygonsCollide(newCollisionVerts, existingVerts) ==
  \/ \E i \in 1..Len(newCollisionVerts) :
       pointStrictlyInPolygon(newCollisionVerts[i].x, newCollisionVerts[i].y, existingVerts)
  \/ \E j \in 1..Len(existingVerts) :
       pointStrictlyInPolygon(existingVerts[j].x, existingVerts[j].y, newCollisionVerts)
  \/ \E i \in 1..Len(newCollisionVerts) : \E j \in 1..Len(existingVerts) :
       segmentsIntersect(newCollisionVerts[i],
                         newCollisionVerts[Next1(i, Len(newCollisionVerts))],
                         existingVerts[j], existingVerts[Next1(j, Len(existingVerts))])

\* checkOverlap without the buildable-area test of its first lines.
checkOverlap_shapesOnly(newVerts, newType) ==
  LET newCollisionVerts ==
        IF newType = "corner"
        THEN getCornerCollisionVerts(newVerts[1], newVerts[2], newVerts[3],
                                     CornerStyleOf(buildingType))
        ELSE newVerts
  IN \E k \in 1..Len(shapes) :
       \/ CoincidentWith(newVerts, shapes[k])
       \/ PolygonsCollide(newCollisionVerts, getCollisionVertices(shapes[k]))

\* A mutation of checkOverlap: the shapes of every floor are tested.
checkOverlap_allFloors(newVerts, newType) ==
  \/ fiefMode /\ ~isShapeInBuildableArea(newVerts)
  \/ LET newCollisionVerts ==
           IF newType = "corner"
           THEN getCornerCollisionVerts(newVerts[1], newVerts[2], newVerts[3],
                                        CornerStyleOf(buildingType))
           ELSE newVerts
     IN \E f \in DOMAIN allFloorShapes : \E k \in 1..Len(allFloorShapes[f]) :
          \/ CoincidentWith(newVerts, allFloorShapes[f][k])
          \/ PolygonsCollide(newCollisionVerts, getCollisionVertices(allFloorShapes[f][k]))

\* checkOverlap(newVerts, newType) against the shapes of the active floor.
checkOverlap(newVerts, newType) ==
  \/ fiefMode /\ ~isShapeInBuildableArea(newVerts)
  \/ LET newCollisionVerts ==
           IF newType = "corner"
           THEN getCornerCollisionVerts(newVerts[1], newVerts[2], newVerts[3],
                                        CornerStyleOf(buildingType))
           ELSE newVerts
     IN \E k \in 1..Len(shapes) :
          \/ CoincidentWith(newVerts, shapes[k])
          \/ PolygonsCollide(newCollisionVerts, getCollisionVertices(shapes[k]))

(***************************************************************************)
(* Initial state: the values given to useState at construction.            *)
(***************************************************************************)
Floors == {0, 1, 2}

\* FIEF_DEFAULTS[type].width = .height, in half cells (5.5 and 10.5 cells).
FiefDefaultSize(type) == IF type = "advanced" THEN 21 ELSE 11

EmptyFloors == [f \in Floors |-> <<>>]

InitSettings ==
  /\ buildingType = "atreides"
  /\ leftClickShape = "square"
  /\ rightClickShape = "triangle"
  /\ middleClickAction = "delete"

InitFief ==
  /\ fiefMode = FALSE
  /\ fiefType = "standard"
  /\ fiefWidth = FiefDefaultSize("standard")
  /\ fiefHeight = FiefDefaultSize("standard")
  /\ fiefPosition = None
  /\ fiefPadding = 0
  /\ stakesInventory = MAX_STAKES
  /\ claimedAreas = <<>>

InitEditor ==
  /\ placedStakes = <<>>
  /\ draggingStake = FALSE
  /\ stakeTimer = FALSE
  /\ shapesHistory = <<>>
  /\ isRotating = FALSE
  /\ rotatingButton = NULL
  /\ rotationAngle = 0
  /\ baseVertices = <<>>
  /\ rotationShapeType = NULL
  /\ rotationStartX = 0
  /\ gridEnabled = FALSE
  /\ isLocked = FALSE
  /\ isDraggingGroup = FALSE
  /\ isRotatingGroup = FALSE
  /\ draggedGroupIds = {}
  /\ dragStart = Pt(0, 0)
  /\ dragOffset = Pt(0, 0)
  /\ groupRotationAngle = 0
  /\ groupRotationCenter = Pt(0, 0)
  /\ clipboard = <<>>
  /\ mousePosition = Pt(0, 0)
  /\ itemSidebarOpen = FALSE
  /\ selectedItemId = NoId
  /\ isDraggingPlacedItem = FALSE
  /\ itemDragOffset = Pt(0, 0)
  /\ itemMoved = FALSE
  /\ savedPatterns = <<>>
  /\ now = 1
  /\ probe = None
  /\ wire = None
  /\ loadStatus = "none"
  /\ sent = None
  /\ undoLog = <<>>
  /\ events = 0

Init ==
  /\ currentFloor = 0
  /\ allFloorShapes = EmptyFloors
  /\ allFloorItems = EmptyFloors
  /\ InitSettings
  /\ InitFief
  /\ InitEditor

(***************************************************************************)
(* checkOverlap as a function: one committed square, one candidate square. *)
(***************************************************************************)
\* Centroids (world units) of the committed square.
ProbeCentres == { <<0, 0>>, <<25, 25>>, <<75, 25>>, <<-40, 10>>, <<100, 100>> }

\* Offsets (world units) of the candidate's centroid from the committed one.
ProbeDX == { -51, -50, -49, -26, -3, 0, 3, 26, 49, 50, 51 }

ProbeDY == { -50, -49, 0, 49, 50 }

SquareAt(ux, uy, id) ==
  verticesToShape(getFreeVertices(ux * U, uy * U, "square"), "square", id, "atreides")

InitOverlap ==
  /\ \E c \in ProbeCentres :
       allFloorShapes = [EmptyFloors EXCEPT ![0] = << SquareAt(c[1], c[2], 0) >>]
  /\ currentFloor = 0
  /\ allFloorItems = EmptyFloors
  /\ InitSettings
  /\ InitFief
  /\ InitEditor

\* A call checkOverlap(candidate, 'square') with the candidate square centred
\* at the committed square's centroid plus (dx, dy), as the preview makes it.
CallCheckOverlap ==
  \E dx \in ProbeDX, dy \in ProbeDY :
    LET c == shapes[1]
        cand == getFreeVertices(c.x + dx * U, c.y + dy * U, "square")
    IN /\ probe' = Some([dx |-> dx, dy |-> dy, verts |-> cand,
                         result |-> checkOverlap(cand, "square")])
       /\ UNCHANGED <<designVars, shapesHistory, settingVars, fiefVars, placeVars, isLocked,
                      groupVars, clipboard, mousePosition, itemVars, savedPatterns, now,
                      codecVars, undoLog, events>>

NextOverlap == CallCheckOverlap

SpecOverlap == InitOverlap /\ [][NextOverlap]_vars

\* C2: two axis-aligned squares of side 50 whose centroids are 49 apart along
\* X, with the same Y, are flagged overlapping by checkOverlap.
C2_Overlap49Flagged ==
  (probe # None /\ Abs(probe[1].dx) = 49 /\ probe[1].dy = 0) => probe[1].result = TRUE

\* C3: flush contact is legal: two axis-aligned squares of side 50 whose
\* centroids are exactly 50 apart along X (one full shared edge) are not
\* flagged, whichever of the two is the committed one.
C3_FlushContactLegal ==
  (probe # None /\ Abs(probe[1].dx) = 50 /\ probe[1].dy = 0) => probe[1].result = FALSE

C3_Witness ==
  /\ probe # None /\ probe[1].dx = 50 /\ probe[1].dy = 0 /\ probe[1].result = FALSE
  /\ shapes[1].x = 25 * U

(***************************************************************************)
(* The share link codec.                                                   *)
(*                                                                         *)
(* A payload is the JSON object inside the 'd' parameter.  A key that is   *)
(* absent is None.  A JSON array is Arr(elements); a string met where an   *)
(* array is expected is Str(characters); a shape entry is an array (flat   *)
(* numeric form), an object (keyed form) or null.  Coordinates on the wire *)
(* are in world units.                                                     *)
(***************************************************************************)
UNDEFINED == "undefined"

Arr(elems) == [k |-> "arr", a |-> elems]

Str(chars) == [k |-> "str", a |-> chars]

\* A JSON number / a JSON string where the decoder tests typeof.
NumV(n) == [k |-> "num", n |-> n, s |-> ""]

StrV(s) == [k |-> "str", n |-> 0, s |-> s]

\* Shape entries: [typeCode, buildingCode, x1, y1, ...], {t, b, v, ...}, null.
ArrEntry(a) == [k |-> "arr", a |-> a, t |-> None, b |-> None, v |-> None, pose |-> None]

ObjEntry(t, b, v, pose) == [k |-> "obj", a |-> <<>>, t |-> t, b |-> b, v |-> v, pose |-> pose]

NullEntry == [k |-> "null", a |-> <<>>, t |-> None, b |-> None, v |-> None, pose |-> None]

\* const state = {}
EmptyPayload ==
  [text |-> "json",
   fs |-> None, fi |-> None, cf |-> None, s |-> None, pi |-> None,
   b |-> None, l |-> None, r |-> None, m |-> None,
   fm |-> None, fx |-> None, fy |-> None, ft |-> None, fw |-> None, fh |-> None,
   fp |-> None, si |-> None, ca |-> None,
   shapes |-> None, buildingType |-> None, leftClickShape |-> None,
   rightClickShape |-> None, middleClickAction |-> None, fiefMode |-> None,
   fiefType |-> None, fiefWidth |-> None, fiefHeight |-> None, fiefPadding |-> None,
   stakesInventory |-> None, claimedAreas |-> None, placedItems |-> None]

\* typeCode in compressShapes
TypeCode(type) ==
  CASE type = "square" -> 0
    [] type = "triangle" -> 1
    [] type = "corner" -> 2
    [] type = "stair" -> 3
    [] OTHER -> 0

\* buildingCode in compressShapes
BuildingCode(building) ==
  CASE building = "atreides" -> 0
    [] building = "harkonnen" -> 1
    [] building = "choamShelter" -> 2
    [] building = "choamFacility" -> 3
    [] OTHER -> 0

\* verts.flatMap(pt => [Math.round(pt.x), Math.round(pt.y)])
RECURSIVE FlatRounded(_)
FlatRounded(verts) ==
  IF verts = <<>> THEN <<>>
  ELSE <<MathRound(Head(verts).x), MathRound(Head(verts).y)>> \o FlatRounded(Tail(verts))

compressShapes(floorShapes) ==
  Arr([i \in 1..Len(floorShapes) |->
         ArrEntry(<<TypeCode(floorShapes[i].type), BuildingCode(floorShapes[i].building)>>
                  \o FlatRounded(floorShapes[i].verts))])

compressItems(floorItems) ==
  Arr([i \in 1..Len(floorItems) |->
         Arr(<<floorItems[i].itemType, MathRound(floorItems[i].x), MathRound(floorItems[i].y)>>)])

DirCode(direction) ==
  CASE direction = "top" -> 0
    [] direction = "bottom" -> 1
    [] direction = "left" -> 2
    [] OTHER -> 3

minClaimed ==
  [i \in 1..Len(claimedAreas) |->
     Arr(<<DirCode(claimedAreas[i].direction), claimedAreas[i].parentId>>)]

floorsWithShapes == {f \in Floors : Len(allFloorShapes[f]) > 0}

floorsWithItems == {f \in Floors : Len(allFloorItems[f]) > 0}

hasMultipleFloors ==
  \/ Cardinality(floorsWithShapes) > 1
  \/ Cardinality(floorsWithItems) > 1
  \/ \E f \in floorsWithShapes : f # 0
  \/ \E f \in floorsWithItems : f # 0

\* shapeToCode
ShapeToCode(shape) ==
  CASE shape = "square" -> 0
    [] shape = "triangle" -> 1
    [] shape = "corner" -> 2
    [] shape = "delete" -> 3
    [] shape = "stair" -> 4

\* The design part of the state object of getCompressedState.
CompressedDesign ==
  IF hasMultipleFloors
  THEN [EmptyPayload EXCEPT
          !.fs = IF floorsWithShapes # {}
                 THEN Some([f \in floorsWithShapes |-> compressShapes(allFloorShapes[f])])
                 ELSE None,
          !.fi = IF floorsWithItems # {}
                 THEN Some([f \in floorsWithItems |-> compressItems(allFloorItems[f])])
                 ELSE None,
          !.cf = IF currentFloor # 0 THEN Some(currentFloor) ELSE None]
  ELSE [EmptyPayload EXCEPT
          !.s = Some(compressShapes(allFloorShapes[0])),
          !.pi = IF Len(allFloorItems[0]) > 0 THEN Some(compressItems(allFloorItems[0]))
                 ELSE None]

\* getCompressedState(): the state object handed to JSON.stringify.
getCompressedState ==
  LET btCode == IF buildingType = "atreides" THEN 0
                ELSE IF buildingType = "harkonnen" THEN 1
                ELSE IF buildingType = "choamShelter" THEN 2 ELSE 3
      d == [CompressedDesign EXCEPT
              !.b = IF btCode # 0 THEN Some(NumV(btCode)) ELSE None,
              !.l = IF leftClickShape # "square"
                    THEN Some(NumV(ShapeToCode(leftClickShape))) ELSE None,
              !.r = IF rightClickShape # "triangle"
                    THEN Some(NumV(ShapeToCode(rightClickShape))) ELSE None,
              !.m = IF middleClickAction # "delete"
                    THEN Some(ShapeToCode(middleClickAction)) ELSE None]
  IN IF fiefMode /\ fiefPosition # None
     THEN [d EXCEPT
             !.fm = Some(1),
             !.fx = Some(MathRound(fiefPosition[1].x)),
             !.fy = Some(MathRound(fiefPosition[1].y)),
             !.ft = IF fiefType # "standard" THEN Some(NumV(1)) ELSE None,
             !.fw = IF fiefWidth # FiefDefaultSize(fiefType) THEN Some(fiefWidth) ELSE None,
             !.fh = IF fiefHeight # FiefDefaultSize(fiefType) THEN Some(fiefHeight) ELSE None,
             !.fp = IF fiefPadding # 0 THEN Some(fiefPadding) ELSE None,
             !.si = IF stakesInventory # MAX_STAKES THEN Some(stakesInventory) ELSE None,
             !.ca = IF Len(claimedAreas) > 0 THEN Some(Arr(minClaimed)) ELSE None]
     ELSE d

(***************************************************************************)
(* Decoding (the effect that loads the 'd' parameter on mount).            *)
(***************************************************************************)
\* x || d for a table lookup that may be undefined
OrElse(x, d) == IF x = UNDEFINED THEN d ELSE x

\* typeFromCode[code] || 'square'
typeFromCode(code) ==
  CASE code = 0 -> "square"
    [] code = 1 -> "triangle"
    [] code = 2 -> "corner"
    [] code = 3 -> "stair"
    [] OTHER -> "square"

\* typeFromChar[s.t] || 'square'
typeFromChar(t) ==
  IF t = None THEN "square"
  ELSE CASE t[1] = "s" -> "square"
         [] t[1] = "t" -> "triangle"
         [] t[1] = "c" -> "corner"
         [] t[1] = "st" -> "stair"
         [] OTHER -> "square"

\* A mutation of buildingFromCode: the table lacks its last entry.
buildingFromCode_threeStyles(n) == IF n \in 0..2 THEN BuildingNames[n + 1] ELSE UNDEFINED

\* buildingFromCode[n]
buildingFromCode(n) == IF n \in 0..3 THEN BuildingNames[n + 1] ELSE UNDEFINED

\* buildingFromChar[c]
buildingFromChar(c) ==
  CASE c = "a" -> "atreides"
    [] c = "h" -> "harkonnen"
    [] c = "cs" -> "choamShelter"
    [] c = "cf" -> "choamFacility"
    [] OTHER -> UNDEFINED

\* shapeFromCode[n] (also actionFromCode)
shapeFromCode(n) ==
  CASE n = 0 -> "square"
    [] n = 1 -> "triangle"
    [] n = 2 -> "corner"
    [] n = 3 -> "delete"
    [] n = 4 -> "stair"
    [] OTHER -> UNDEFINED

\* shapeFromChar[c]
shapeFromChar(c) ==
  CASE c = "s" -> "square"
    [] c = "t" -> "triangle"
    [] c = "c" -> "corner"
    [] c = "d" -> "delete"
    [] c = "st" -> "stair"
    [] OTHER -> UNDEFINED

\* dirFromCode[n]
dirFromCode(n) ==
  CASE n = 0 -> "top"
    [] n = 1 -> "bottom"
    [] n = 2 -> "left"
    [] n = 3 -> "right"
    [] OTHER -> UNDEFINED

\* dirFromChar[c]
dirFromChar(c) ==
  CASE c = "t" -> "top"
    [] c = "b" -> "bottom"
    [] c = "l" -> "left"
    [] c = "r" -> "right"
    [] OTHER -> UNDEFINED

\* typeof v === 'number' ? fromCode[v] : fromChar[v] || dflt
\* (the conditional binds looser than ||: a number out of range stays undefined)
buildingOf(v, dflt) ==
  IF v.k = "num" THEN buildingFromCode(v.n) ELSE OrElse(buildingFromChar(v.s), dflt)

clickShapeOf(v, dflt) ==
  IF v.k = "num" THEN shapeFromCode(v.n) ELSE OrElse(shapeFromChar(v.s), dflt)

\* defaultBuilding
defaultBuildingOf(state) ==
  IF state.b # None THEN buildingOf(state.b[1], "atreides") ELSE "atreides"

\* for (j = start; j < a.length; j += 2) verts.push({ x: a[j], y: a[j + 1] })
\* with j a 1-based index here; the payloads drawn hold whole pairs.
RECURSIVE PairsFrom(_, _)
PairsFrom(a, j) ==
  IF j + 1 > Len(a) THEN <<>>
  ELSE <<Pt(a[j] * U, a[j + 1] * U)>> \o PairsFrom(a, j + 2)

\* Is the second element of a flat entry read as a building code?
HasBuildingCode(a) ==
  Len(a) >= 2 /\ a[2] >= 0 /\ a[2] <= 3 /\ (Len(a) - 2) % 2 = 0

\* type, building and verts of one entry.
EntryType(e, isUltraCompact) ==
  IF isUltraCompact
  THEN (IF e.k = "arr" /\ Len(e.a) >= 1 THEN typeFromCode(e.a[1]) ELSE "square")
  ELSE typeFromChar(e.t)

EntryBuilding(e, isUltraCompact, defaultBuilding) ==
  IF isUltraCompact
  THEN (IF e.k = "arr" /\ HasBuildingCode(e.a)
        THEN OrElse(buildingFromCode(e.a[2]), defaultBuilding)
        ELSE defaultBuilding)
  ELSE (IF e.b # None THEN buildingOf(e.b[1], defaultBuilding) ELSE defaultBuilding)

EntryVerts(e, isUltraCompact) ==
  IF isUltraCompact
  THEN (IF e.k = "arr" THEN PairsFrom(e.a, IF HasBuildingCode(e.a) THEN 3 ELSE 2) ELSE <<>>)
  ELSE (IF e.v # None /\ Len(e.v[1]) >= 4 THEN PairsFrom(e.v[1], 1) ELSE <<>>)

\* The rotation the decoder computes from the decoded vertices.
decodedRotation(verts, type) ==
  IF Len(verts) >= 2
  THEN IF type = "square" \/ type = "stair"
       THEN Atan2Deg(verts[2].y - verts[1].y, verts[2].x - verts[1].x) + 180
       ELSE IF type = "corner"
       THEN Atan2Deg(verts[2].y - verts[1].y, verts[2].x - verts[1].x)
       ELSE Atan2Deg(verts[1].y - MeanY(verts), verts[1].x - MeanX(verts)) + 90
  ELSE 0

\* The body of the map callback: one entry to one shape.
expandEntry(e, isUltraCompact, defaultBuilding, id) ==
  LET type == EntryType(e, isUltraCompact)
      verts == EntryVerts(e, isUltraCompact)
  IN [id |-> id, type |-> type,
      x |-> IF Len(verts) > 0 THEN MeanX(verts) ELSE 0,
      y |-> IF Len(verts) > 0 THEN MeanY(verts) ELSE 0,
      rotation |-> decodedRotation(verts, type),
      building |-> EntryBuilding(e, isUltraCompact, defaultBuilding),
      verts |-> verts]

\* Does list.map(...) throw: the list is not an array, or an entry is null.
MapThrows(list) ==
  /\ Len(list.a) > 0
  /\ \/ list.k # "arr"
     \/ \E i \in 1..Len(list.a) : list.a[i].k = "null"

\* expandCompressedShapes(compressedShapes, startId), when it does not throw.
expandCompressedShapes(list, startId, defaultBuilding) ==
  [i \in 1..Len(list.a) |->
     expandEntry(list.a[i], list.a[1].k = "arr", defaultBuilding, now + startId + (i - 1))]

\* expandCompressedItems(compressedItems, startId), when it does not throw.
expandCompressedItems(list, startId) ==
  [i \in 1..Len(list.a) |->
     [id |-> now + startId + (i - 1), itemType |-> list.a[i].a[1],
      x |-> list.a[i].a[2] * U, y |-> list.a[i].a[3] * U]]

\* The state setters the effect has called when it ends: None for a setter
\* that was not called, Some(value) for the value it was called with.
NoSets ==
  [threw |-> FALSE,
   allFloorShapes |-> None, allFloorItems |-> None, currentFloor |-> None,
   buildingType |-> None, leftClickShape |-> None, rightClickShape |-> None,
   middleClickAction |-> None, fiefMode |-> None, fiefPosition |-> None,
   fiefType |-> None, fiefWidth |-> None, fiefHeight |-> None, fiefPadding |-> None,
   stakesInventory |-> None, claimedAreas |-> None]

\* Sum of the lengths of the lists stored for the floors below f.
RECURSIVE LengthBelow(_, _)
LengthBelow(byFloor, f) ==
  IF f <= 0 THEN 0
  ELSE LengthBelow(byFloor, f - 1)
       + (IF (f - 1) \in DOMAIN byFloor THEN Len(byFloor[f - 1].a) ELSE 0)

\* The multi-floor branch (state.fs || state.fi).
decodeMultiFloor(state) ==
  LET fs == IF state.fs # None THEN state.fs[1] ELSE <<>>
      fi == IF state.fi # None THEN state.fi[1] ELSE <<>>
      top == CHOOSE f \in Floors : \A g \in Floors : g <= f
      nShapes == LengthBelow(fs, top + 1)
      db == defaultBuildingOf(state)
      newFloorShapes ==
        [f \in Floors |-> IF f \in DOMAIN fs
                          THEN expandCompressedShapes(fs[f], LengthBelow(fs, f), db)
                          ELSE <<>>]
      newFloorItems ==
        [f \in Floors |-> IF f \in DOMAIN fi
                          THEN expandCompressedItems(fi[f], 2000 + nShapes + LengthBelow(fi, f))
                          ELSE <<>>]
  IN IF \/ \E f \in DOMAIN fs : MapThrows(fs[f])
        \/ \E f \in DOMAIN fi : MapThrows(fi[f])
     THEN [NoSets EXCEPT !.threw = TRUE]
     ELSE [NoSets EXCEPT !.allFloorShapes = Some(newFloorShapes),
                         !.allFloorItems = Some(newFloorItems),
                         !.currentFloor = state.cf]

\* One claimed area entry: [direction, parentId] or {d, p}.
expandClaimed(a, isUltraCompactClaimed, id) ==
  [id |-> id,
   direction |-> IF isUltraCompactClaimed
                 THEN (IF a.k = "arr" /\ Len(a.a) >= 1 THEN dirFromCode(a.a[1]) ELSE UNDEFINED)
                 ELSE OrElse(dirFromChar(a.d), "top"),
   parentId |-> IF isUltraCompactClaimed
                THEN a.a[2]
                ELSE (IF a.p.k = "str" /\ a.p.s = "m" THEN MAIN ELSE a.p.n)]

\* The settings of the single-floor branch that precede the claimed areas.
decodeSettings(state, q) ==
  [q EXCEPT
     !.buildingType = IF state.b # None THEN Some(buildingOf(state.b[1], "atreides")) ELSE None,
     !.leftClickShape = IF state.l # None THEN Some(clickShapeOf(state.l[1], "square")) ELSE None,
     !.rightClickShape = IF state.r # None THEN Some(clickShapeOf(state.r[1], "triangle"))
                         ELSE None,
     !.middleClickAction = IF state.m # None THEN Some(OrElse(shapeFromCode(state.m[1]), "delete"))
                           ELSE None,
     !.fiefMode = IF state.fm # None THEN Some(state.fm[1] = 1) ELSE None,
     !.fiefPosition = IF state.fx # None /\ state.fy # None
                      THEN Some(Some(Pt(state.fx[1] * U, state.fy[1] * U))) ELSE None,
     !.fiefType = IF state.ft # None
                  THEN Some(IF \/ state.ft[1].k = "num" /\ state.ft[1].n = 1
                               \/ state.ft[1].k = "str" /\ state.ft[1].s = "a"
                            THEN "advanced" ELSE "standard")
                  ELSE None,
     !.fiefWidth = IF state.fw # None /\ state.fw[1] # 0 THEN state.fw ELSE None,
     !.fiefHeight = IF state.fh # None /\ state.fh[1] # 0 THEN state.fh ELSE None,
     !.fiefPadding = state.fp,
     !.stakesInventory = state.si]

\* The single-floor branch (state.s non-empty): the shapes and the settings
\* are set before the claimed areas and the items are read.
decodeSingleFloor(state) ==
  LET db == defaultBuildingOf(state)
      q1 == decodeSettings(state,
              [NoSets EXCEPT !.allFloorShapes =
                 Some([EmptyFloors EXCEPT ![0] = expandCompressedShapes(state.s[1], 0, db)])])
      hasCa == state.ca # None /\ Len(state.ca[1].a) > 0
      q2 == IF hasCa
            THEN [q1 EXCEPT !.claimedAreas =
                    Some([i \in 1..Len(state.ca[1].a) |->
                            expandClaimed(state.ca[1].a[i], state.ca[1].a[1].k = "arr",
                                          now + 1000 + (i - 1))])]
            ELSE q1
      hasPi == state.pi # None /\ Len(state.pi[1].a) > 0
      q3 == IF hasPi
            THEN [q2 EXCEPT !.allFloorItems =
                    Some([EmptyFloors EXCEPT ![0] = expandCompressedItems(state.pi[1], 2000)])]
            ELSE q2
  IN IF MapThrows(state.s[1]) THEN [NoSets EXCEPT !.threw = TRUE]
     ELSE IF hasCa /\ MapThrows(state.ca[1]) THEN [q1 EXCEPT !.threw = TRUE]
     ELSE IF hasPi /\ MapThrows(state.pi[1]) THEN [q2 EXCEPT !.threw = TRUE]
     ELSE q3

\* "Old format - direct mapping": every value is taken as it is stored.
decodeLegacy(state) ==
  [NoSets EXCEPT
     !.allFloorShapes = IF state.shapes # None
                        THEN Some([EmptyFloors EXCEPT ![0] = state.shapes[1]]) ELSE None,
     !.buildingType = state.buildingType,
     !.leftClickShape = state.leftClickShape,
     !.rightClickShape = state.rightClickShape,
     !.middleClickAction = state.middleClickAction,
     !.fiefMode = state.fiefMode,
     !.fiefType = state.fiefType,
     !.fiefWidth = IF state.fiefWidth # None /\ state.fiefWidth[1] # 0
                   THEN state.fiefWidth ELSE None,
     !.fiefHeight = IF state.fiefHeight # None /\ state.fiefHeight[1] # 0
                    THEN state.fiefHeight ELSE None,
     !.fiefPadding = state.fiefPadding,
     !.stakesInventory = state.stakesInventory,
     !.claimedAreas = state.claimedAreas,
     !.allFloorItems = IF state.placedItems # None
                       THEN Some([EmptyFloors EXCEPT ![0] = state.placedItems[1]]) ELSE None]

\* The body of the try block, for a payload that decompressed to some text.
decodeSharedData(payload) ==
  IF payload.text = "notjson" THEN [NoSets EXCEPT !.threw = TRUE]
  ELSE IF payload.fs # None \/ payload.fi # None THEN decodeMultiFloor(payload)
  ELSE IF payload.s # None /\ Len(payload.s[1].a) > 0 THEN decodeSingleFloor(payload)
  ELSE IF payload.s # None /\ payload.s[1].k = "arr"
  THEN [NoSets EXCEPT !.allFloorShapes = Some(EmptyFloors)]
  ELSE decodeLegacy(payload)

\* Opening the page with ?d=payload: the cells are constructed, the effect
\* decodes the payload inside its try block, and the other effects of the
\* mount run after it: the fief size follows the fief type (lines 1320-1324),
\* and, fiefMode being false at construction, the stakes and the claimed
\* areas are reset (lines 1326-1335).  All setter calls of the mount are
\* applied together, the last call for a cell winning.
LoadSharedState(payload) ==
  LET q == IF payload.text = "garbage" THEN NoSets ELSE decodeSharedData(payload)
      newFiefType == IF q.fiefType # None THEN q.fiefType[1] ELSE "standard"
  IN /\ allFloorShapes' = (IF q.allFloorShapes # None THEN q.allFloorShapes[1] ELSE EmptyFloors)
     /\ allFloorItems' = (IF q.allFloorItems # None THEN q.allFloorItems[1] ELSE EmptyFloors)
     /\ currentFloor' = (IF q.currentFloor # None THEN q.currentFloor[1] ELSE 0)
     /\ buildingType' = (IF q.buildingType # None THEN q.buildingType[1] ELSE "atreides")
     /\ leftClickShape' = (IF q.leftClickShape # None THEN q.leftClickShape[1] ELSE "square")
     /\ rightClickShape' = (IF q.rightClickShape # None THEN q.rightClickShape[1]
                            ELSE "triangle")
     /\ middleClickAction' = (IF q.middleClickAction # None THEN q.middleClickAction[1]
                              ELSE "delete")
     /\ fiefMode' = (IF q.fiefMode # None THEN q.fiefMode[1] ELSE FALSE)
     /\ fiefPosition' = (IF q.fiefPosition # None THEN q.fiefPosition[1] ELSE None)
     /\ fiefType' = newFiefType
     /\ fiefWidth' = FiefDefaultSize(newFiefType)
     /\ fiefHeight' = FiefDefaultSize(newFiefType)
     /\ fiefPadding' = (IF q.fiefPadding # None THEN q.fiefPadding[1] ELSE 0)
     /\ stakesInventory' = MAX_STAKES
     /\ claimedAreas' = <<>>
     /\ placedStakes' = <<>>
     /\ draggingStake' = FALSE
     /\ stakeTimer' = FALSE
     /\ loadStatus' = (IF payload.text = "garbage" THEN "ignored"
                       ELSE IF q.threw THEN "failed" ELSE "loaded")
     /\ shapesHistory' = <<>>
     /\ isRotating' = FALSE
     /\ rotatingButton' = NULL
     /\ rotationAngle' = 0
     /\ baseVertices' = <<>>
     /\ rotationShapeType' = NULL
     /\ rotationStartX' = 0
     /\ gridEnabled' = FALSE
     /\ isLocked' = FALSE
     /\ isDraggingGroup' = FALSE
     /\ isRotatingGroup' = FALSE
     /\ draggedGroupIds' = {}
     /\ dragStart' = Pt(0, 0)
     /\ dragOffset' = Pt(0, 0)
     /\ groupRotationAngle' = 0
     /\ groupRotationCenter' = Pt(0, 0)
     /\ clipboard' = <<>>
     /\ mousePosition' = Pt(0, 0)
     /\ itemSidebarOpen' = FALSE
     /\ selectedItemId' = NoId
     /\ isDraggingPlacedItem' = FALSE
     /\ itemDragOffset' = Pt(0, 0)
     /\ itemMoved' = FALSE
     /\ undoLog' = <<>>
     /\ UNCHANGED <<savedPatterns, now, probe, events>>

\* handleCopyLink: the link is made from the current state.
CopyLink ==
  /\ wire' = Some(getCompressedState)
  /\ sent' = Some([shapes |-> allFloorShapes, items |-> allFloorItems])
  /\ UNCHANGED <<designVars, shapesHistory, settingVars, fiefVars, placeVars, isLocked,
                 groupVars, clipboard, mousePosition, itemVars, savedPatterns, now, probe,
                 loadStatus, undoLog, events>>

\* The link just copied is opened.
OpenCopiedLink ==
  /\ wire # None /\ sent # None
  /\ LoadSharedState(wire[1])
  /\ UNCHANGED <<wire, sent>>

(***************************************************************************)
(* The codec as a function: a design is drawn, copied as a link, and the   *)
(* link (or a link made by hand) is opened.                                *)
(***************************************************************************)
\* Shapes as free placement makes them; positions in ticks, off the unit grid.
ShapeA(id) == verticesToShape(getFreeVertices(0, 0, "square"), "square", id, "atreides")

ShapeB(id) == verticesToShape(getFreeVertices(606, 0, "stair"), "stair", id, "harkonnen")

ShapeC(id) == verticesToShape(getFreeVertices(7, 603, "corner"), "corner", id, "choamFacility")

ShapeD(id) ==
  verticesToShape(getFreeVertices(1200, 1200, "triangle"), "triangle", id, "choamShelter")

ShapeE(id) ==
  verticesToShape(rotateVertices(getFreeVertices(-725, 245, "square"), 90), "square", id,
                  "choamFacility")

CodecFloorLists ==
  { <<>>, <<ShapeA(1)>>, <<ShapeB(1), ShapeC(2)>>, <<ShapeD(1), ShapeE(2), ShapeA(3)>> }

CodecItemLists ==
  { <<>>, <<[id |-> 9, itemType |-> "spice-generator", x |-> 1230, y |-> -594]>> }

CodecFiefs ==
  { [mode |-> FALSE, pos |-> None, type |-> "standard", padding |-> 0,
     width |-> FiefDefaultSize("standard"),
     stakes |-> MAX_STAKES, claims |-> <<>>],
    [mode |-> TRUE, pos |-> Some(Pt(-1206, -1200)), type |-> "advanced", padding |-> 25,
     width |-> FiefDefaultSize("advanced") + 1,
     stakes |-> MAX_STAKES - 1,
     claims |-> <<[id |-> 77, direction |-> "right", parentId |-> MAIN]>>] }

InitCodec ==
  /\ allFloorShapes \in [Floors -> CodecFloorLists]
  /\ \E items \in CodecItemLists, f \in {0, 1} :
       allFloorItems = [EmptyFloors EXCEPT ![f] = items]
  /\ currentFloor \in {0, 2}
  /\ buildingType \in {"atreides", "choamFacility"}
  /\ leftClickShape = "square"
  /\ rightClickShape \in {"triangle", "stair"}
  /\ middleClickAction = "delete"
  /\ \E fief \in CodecFiefs :
       /\ fiefMode = fief.mode
       /\ fiefPosition = fief.pos
       /\ fiefType = fief.type
       /\ fiefWidth = fief.width
       /\ fiefHeight = FiefDefaultSize(fief.type)
       /\ fiefPadding = fief.padding
       /\ stakesInventory = fief.stakes
       /\ claimedAreas = fief.claims
  /\ InitEditor

\* Whole pairs of a unit square's corners, in world units.
WireSquare == <<0, 0, 50, 0, 50, 50, 0, 50>>

\* One well-formed flat entry: a stair of style harkonnen.
WireStair == ArrEntry(<<3, 1>> \o WireSquare)

\* Links not made by handleCopyLink: older formats, and damaged payloads.
ForeignPayloads ==
  << [EmptyPayload EXCEPT !.text = "garbage"],
    [EmptyPayload EXCEPT !.text = "notjson"],
    [EmptyPayload EXCEPT !.s = Some(Arr(<<>>))],
    \* flat entries without a building code
    [EmptyPayload EXCEPT !.s = Some(Arr(<<ArrEntry(<<2, 0, 0, 50, 0, 0, 50>>)>>)),
                         !.b = Some(StrV("h"))],
    \* keyed objects, one of them carrying a pose of its own
    [EmptyPayload EXCEPT
       !.s = Some(Arr(<<ObjEntry(Some("st"), Some(StrV("cf")), Some(WireSquare),
                                 Some([x |-> 999, y |-> 999, rotation |-> 45])),
                        ObjEntry(Some("s"), None, Some(WireSquare), None)>>)),
       !.l = Some(StrV("c")), !.ft = Some(StrV("a")), !.fm = Some(1),
       !.fx = Some(-100), !.fy = Some(-100),
       !.ca = Some(Arr(<<[k |-> "obj", a |-> <<>>, d |-> "l", p |-> StrV("m")]>>))],
    \* damaged: a null shape entry
    [EmptyPayload EXCEPT !.s = Some(Arr(<<WireStair, NullEntry>>)), !.b = Some(NumV(1))],
    \* damaged: the shape list is a string
    [EmptyPayload EXCEPT !.s = Some(Str(<<"x">>))],
    \* damaged: the claimed areas are a string
    [EmptyPayload EXCEPT !.s = Some(Arr(<<WireStair>>)), !.b = Some(NumV(1)),
                         !.ca = Some(Str(<<"x">>))],
    \* damaged: a null claimed area
    [EmptyPayload EXCEPT !.s = Some(Arr(<<WireStair>>)), !.m = Some(4),
                         !.ca = Some(Arr(<<NullEntry>>))],
    \* damaged: a null item
    [EmptyPayload EXCEPT !.s = Some(Arr(<<WireStair>>)),
                         !.ca = Some(Arr(<<Arr(<<1, 0>>)>>)),
                         !.pi = Some(Arr(<<NullEntry>>))],
    \* damaged multi-floor payloads
    [EmptyPayload EXCEPT !.fs = Some([f \in {0, 1} |->
                                        IF f = 0 THEN Arr(<<WireStair>>)
                                        ELSE Arr(<<WireStair, NullEntry>>)])],
    [EmptyPayload EXCEPT !.fs = Some([f \in {0} |-> Arr(<<WireStair>>)]),
                         !.fi = Some([f \in {1} |-> Arr(<<NullEntry>>)])],
    \* the old verbose format, pose and vertices in agreement
    [EmptyPayload EXCEPT !.shapes = Some(<<ShapeB(5)>>), !.buildingType = Some("harkonnen"),
                         !.fiefMode = Some(FALSE)],
    \* the old verbose format, the stored pose at odds with the vertices
    [EmptyPayload EXCEPT !.shapes = Some(<<[ShapeA(5) EXCEPT !.x = 999 * U, !.rotation = 45]>>)],
    \* keyed objects without a vertex list
    [EmptyPayload EXCEPT !.s = Some(Arr(<<ObjEntry(Some("s"), None, None, None),
                                          ObjEntry(Some("c"), None, None, None)>>))],
    \* fief mode without a fief position: compact, and the old verbose format
    [EmptyPayload EXCEPT !.s = Some(Arr(<<WireStair>>)), !.fm = Some(1)],
    [EmptyPayload EXCEPT !.shapes = Some(<<ShapeB(5)>>), !.fiefMode = Some(TRUE)] >>

OpenForeignLink ==
  \E n \in 1..Len(ForeignPayloads) :
    /\ wire' = Some(ForeignPayloads[n])
    /\ sent' = None
    /\ LoadSharedState(ForeignPayloads[n])

NextCodec == CopyLink \/ OpenCopiedLink \/ OpenForeignLink

SpecCodec == InitCodec /\ [][NextCodec]_vars

\* Every shape of every floor.
AllShapes == UNION {{allFloorShapes[f][i] : i \in 1..Len(allFloorShapes[f])} : f \in Floors}

\* C4: a load that failed (an exception caught by the effect) has changed
\* nothing: the design and every setting are as they were when the load
\* began, that is, as constructed.
C4_FailedLoadUntouched ==
  loadStatus = "failed" =>
    /\ allFloorShapes = EmptyFloors /\ allFloorItems = EmptyFloors /\ currentFloor = 0
    /\ buildingType = "atreides" /\ leftClickShape = "square"
    /\ rightClickShape = "triangle" /\ middleClickAction = "delete"
    /\ fiefMode = FALSE /\ fiefType = "standard" /\ fiefPosition = None
    /\ fiefWidth = FiefDefaultSize("standard") /\ fiefHeight = FiefDefaultSize("standard")
    /\ fiefPadding = 0 /\ stakesInventory = MAX_STAKES /\ claimedAreas = <<>>

\* C5: codec round trip: after a copied link is opened, every floor holds as
\* many shapes as the design that was copied, in the same order, each of the
\* same kind and building style and with every vertex within 1 unit.
C5_RoundTrip ==
  (loadStatus = "loaded" /\ sent # None) =>
    \A f \in Floors :
      /\ Len(allFloorShapes[f]) = Len(sent[1].shapes[f])
      /\ \A i \in 1..Len(allFloorShapes[f]) :
           LET got == allFloorShapes[f][i]
               orig == sent[1].shapes[f][i]
           IN /\ got.type = orig.type
              /\ got.building = orig.building
              /\ Len(got.verts) = Len(orig.verts)
              /\ \A j \in 1..Len(got.verts) :
                   /\ Abs(got.verts[j].x - orig.verts[j].x) <= U
                   /\ Abs(got.verts[j].y - orig.verts[j].y) <= U

C5_Witness ==
  /\ loadStatus = "loaded" /\ sent # None
  /\ \A f \in Floors : Len(sent[1].shapes[f]) > 0 /\ Len(allFloorShapes[f]) > 0
  /\ \E f \in Floors : Len(allFloorShapes[f]) = 3
  /\ \E f \in Floors : \E i \in 1..Len(allFloorShapes[f]) :
       /\ allFloorShapes[f][i].type = "stair"
       /\ allFloorShapes[f][i].verts # sent[1].shapes[f][i].verts

\* C6: whatever the format of the payload, a loaded shape's centroid and
\* rotation are those computed from its vertices.
C6_PoseRecomputed ==
  loadStatus = "loaded" =>
    \A sh \in AllShapes :
      Len(sh.verts) >= 2 =>
        /\ sh.x = MeanX(sh.verts)
        /\ sh.y = MeanY(sh.verts)
        /\ sh.rotation = RotationOf(sh.verts, sh.type)

(***************************************************************************)
(* The editor: picking, edges, snapping and connected groups.              *)
(***************************************************************************)
\* Math.round(a / b) for b > 0
RoundDiv(a, b) == (2 * a + b) \div (2 * b)

\* findShapeAtPoint(px, py): the index of the topmost shape under the point,
\* 0 for null.
findShapeAtPoint(px, py) ==
  LET hits == {i \in 1..Len(shapes) : pointInPolygon(px, py, getCollisionVertices(shapes[i]))}
  IN IF hits = {} THEN 0 ELSE CHOOSE i \in hits : \A j \in hits : j <= i

\* Math.sqrt(dx * dx + dy * dy) of an edge, for the directions the model draws
\* (edges parallel to an axis).
EdgeLength(dx, dy) == Abs(dx) + Abs(dy)

\* One edge record of getShapeEdges; flipToward is the vertex the normal must
\* point away from (corners), None for the standard polygon edges.
MakeEdge(v1, v2, flipToward, shapeId) ==
  LET dx == v2.x - v1.x
      dy == v2.y - v1.y
      len == EdgeLength(dx, dy)
      ux == dx \div len
      uy == dy \div len
      midX == (v1.x + v2.x) \div 2
      midY == (v1.y + v2.y) \div 2
      flip == /\ flipToward # None
              /\ uy * (flipToward[1].x - midX) - ux * (flipToward[1].y - midY) > 0
  IN [v1 |-> v1, v2 |-> v2, midX |-> midX, midY |-> midY, ux |-> ux, uy |-> uy,
      nx |-> IF flip THEN -uy ELSE uy, ny |-> IF flip THEN ux ELSE -ux,
      length |-> len, shapeId |-> shapeId]

\* getShapeEdges(shape)
getShapeEdges(shape) ==
  LET verts == shape.verts
      n == Len(verts)
  IN IF shape.type = "corner"
     THEN (IF verts[2] # verts[1]
           THEN <<MakeEdge(verts[1], verts[2], Some(verts[3]), shape.id)>> ELSE <<>>)
          \o (IF verts[3] # verts[1]
              THEN <<MakeEdge(verts[3], verts[1], Some(verts[2]), shape.id)>> ELSE <<>>)
     ELSE LET keep == {i \in 1..n : verts[i] # verts[Next1(i, n)]}
              F[i \in 0..n] ==
                IF i = 0 THEN <<>>
                ELSE IF i \in keep
                THEN Append(F[i - 1], MakeEdge(verts[i], verts[Next1(i, n)], None, shape.id))
                ELSE F[i - 1]
          IN F[n]

\* allEdges = shapes.flatMap(getShapeEdges)
RECURSIVE EdgesOf(_)
EdgesOf(list) == IF list = <<>> THEN <<>> ELSE getShapeEdges(Head(list)) \o EdgesOf(Tail(list))

allEdges == EdgesOf(shapes)

\* pointToEdgeDistance(px, py, edge), squared.
pointToEdgeDistanceSq(px, py, edge) ==
  LET dx == edge.v2.x - edge.v1.x
      dy == edge.v2.y - edge.v1.y
      lenSq == dx * dx + dy * dy
      dot == (px - edge.v1.x) * dx + (py - edge.v1.y) * dy
      tNum == IF dot < 0 THEN 0 ELSE IF dot > lenSq THEN lenSq ELSE dot
      qx == edge.v1.x + (tNum * dx) \div lenSq
      qy == edge.v1.y + (tNum * dy) \div lenSq
  IN (px - qx) * (px - qx) + (py - qy) * (py - qy)

\* findClosestEdge(px, py).edge as an index into allEdges: the first edge at the
\* least distance; 0 when there is no edge.
findClosestEdge(px, py) ==
  LET es == allEdges
      d(i) == pointToEdgeDistanceSq(px, py, es[i])
  IN IF es = <<>> THEN 0
     ELSE CHOOSE i \in 1..Len(es) :
            /\ \A j \in 1..Len(es) : d(i) <= d(j)
            /\ \A j \in 1..(i - 1) : d(j) > d(i)

\* !edge || distance > SNAP_THRESHOLD
IsFreePlace(px, py) ==
  LET k == findClosestEdge(px, py)
  IN \/ k = 0
     \/ pointToEdgeDistanceSq(px, py, allEdges[k]) > (SNAP_THRESHOLD * U) * (SNAP_THRESHOLD * U)

\* calculateSnappedVertices(edge, shapeType, mouseX, mouseY)
calculateSnappedVertices(edge, shapeType, mouseX, mouseY) ==
  LET v1 == edge.v1
      v2 == edge.v2
      offX == edge.nx * SHAPE_SIZE * U
      offY == edge.ny * SHAPE_SIZE * U
  IN IF shapeType \in {"square", "stair"}
     THEN << Pt(v2.x, v2.y), Pt(v1.x, v1.y), Pt(v1.x + offX, v1.y + offY),
             Pt(v2.x + offX, v2.y + offY) >>
     ELSE IF shapeType = "corner"
     THEN LET relX == mouseX - edge.midX
              relY == mouseY - edge.midY
              perpMult == IF relX * edge.nx + relY * edge.ny >= 0 THEN 1 ELSE -1
              cornerAtV1 == relX * edge.ux + relY * edge.uy < 0
          IN IF cornerAtV1
             THEN << Pt(v1.x, v1.y), Pt(v2.x, v2.y),
                     Pt(v1.x + offX * perpMult, v1.y + offY * perpMult) >>
             ELSE << Pt(v2.x, v2.y), Pt(v1.x, v1.y),
                     Pt(v2.x + offX * perpMult, v2.y + offY * perpMult) >>
     ELSE << Pt(edge.midX + edge.nx * TRI_HEIGHT, edge.midY + edge.ny * TRI_HEIGHT),
             Pt(v2.x, v2.y), Pt(v1.x, v1.y) >>

\* snapVerticesToGrid(verts, force)
snapVerticesToGrid(verts, force) ==
  IF (~gridEnabled /\ ~force) \/ Len(verts) = 0 THEN verts
  ELSE LET cx == MeanX(verts)
           cy == MeanY(verts)
           cell == CELL_SIZE * U
           halfCell == cell \div 2
           snappedCx == RoundDiv(cx - halfCell, cell) * cell + halfCell
           snappedCy == RoundDiv(cy - halfCell, cell) * cell + halfCell
       IN offsetVertices(verts, snappedCx - cx, snappedCy - cy)

\* The vertices a press at (px, py) proposes for shapeType (handleMouseDown
\* lines 2753-2767, handleMouseUp lines 2854-2866).
proposedVertices(px, py, shapeType) ==
  IF IsFreePlace(px, py)
  THEN (IF gridEnabled \/ Len(shapes) = 0
        THEN snapVerticesToGrid(getFreeVertices(px, py, shapeType), Len(shapes) = 0)
        ELSE getFreeVertices(px, py, shapeType))
  ELSE calculateSnappedVertices(allEdges[findClosestEdge(px, py)], shapeType, px, py)

\* shapesShareEdge(shape1, shape2)
shapesShareEdge(shape1, shape2) ==
  LET verts1 == shape1.verts
      verts2 == shape2.verts
      tolerance == EDGE_TOLERANCE * 2 * U
      near(a, b) == HypotLess(a.x - b.x, a.y - b.y, tolerance)
  IN \E i \in 1..Len(verts1) : \E j \in 1..Len(verts2) :
       LET a1 == verts1[i]
           a2 == verts1[Next1(i, Len(verts1))]
           b1 == verts2[j]
           b2 == verts2[Next1(j, Len(verts2))]
       IN (near(a1, b1) /\ near(a2, b2)) \/ (near(a1, b2) /\ near(a2, b1))

\* The queue loop of findConnectedGroup: queue holds indices into shapes, group
\* the ids collected so far; ScanOthers is the inner for loop over shapes.
RECURSIVE DrainQueue(_, _), ScanOthers(_, _, _, _)
DrainQueue(queue, group) ==
  IF queue = <<>> THEN group ELSE ScanOthers(Head(queue), 1, Tail(queue), group)

ScanOthers(current, k, queue, group) ==
  IF k > Len(shapes) THEN DrainQueue(queue, group)
  ELSE IF shapes[k].id \in group THEN ScanOthers(current, k + 1, queue, group)
  ELSE IF shapesShareEdge(shapes[current], shapes[k])
  THEN ScanOthers(current, k + 1, Append(queue, k), group \cup {shapes[k].id})
  ELSE ScanOthers(current, k + 1, queue, group)

\* findConnectedGroup(startShape), startShape given by its index; a set of ids.
findConnectedGroup(startShape) == DrainQueue(<<startShape>>, {shapes[startShape].id})

\* list.filter(keep), for a predicate given as the set of indices kept.
RECURSIVE FilterIdx(_, _, _)
FilterIdx(list, keep, i) ==
  IF i > Len(list) THEN <<>>
  ELSE (IF i \in keep THEN <<list[i]>> ELSE <<>>) \o FilterIdx(list, keep, i + 1)

\* getShapesByIds(ids)
getShapesByIds(ids) == FilterIdx(shapes, {i \in 1..Len(shapes) : shapes[i].id \in ids}, 1)

\* All vertices of a list of vertex lists, in order.
RECURSIVE FlatVerts(_)
FlatVerts(lists) == IF lists = <<>> THEN <<>> ELSE Head(lists) \o FlatVerts(Tail(lists))

\* getGroupCentroid(groupShapes)
getGroupCentroid(groupShapes) ==
  LET all == FlatVerts([i \in 1..Len(groupShapes) |-> groupShapes[i].verts])
  IN IF Len(groupShapes) = 0 THEN Pt(0, 0) ELSE Pt(MeanX(all), MeanY(all))

\* A member of transformedShapes: the shape with its newVerts.
Transformed(shape, newVerts) ==
  [id |-> shape.id, type |-> shape.type, building |-> shape.building, newVerts |-> newVerts]

MoveAll(transformedShapes, dx, dy) ==
  [i \in 1..Len(transformedShapes) |->
     [transformedShapes[i] EXCEPT !.newVerts = offsetVertices(@, dx, dy)]]

\* snapGroupBoundingBoxToGrid(transformedShapes)
snapGroupBoundingBoxToGrid(transformedShapes) ==
  IF ~gridEnabled \/ Len(transformedShapes) = 0 THEN transformedShapes
  ELSE LET all == FlatVerts([i \in 1..Len(transformedShapes) |-> transformedShapes[i].newVerts])
           minX == CHOOSE m \in {all[i].x : i \in 1..Len(all)} :
                     \A i \in 1..Len(all) : m <= all[i].x
           minY == CHOOSE m \in {all[i].y : i \in 1..Len(all)} :
                     \A i \in 1..Len(all) : m <= all[i].y
           cell == CELL_SIZE * U
       IN MoveAll(transformedShapes, RoundDiv(minX, cell) * cell - minX,
                  RoundDiv(minY, cell) * cell - minY)

\* snapGroupToEdges(transformedShapes, groupIds)
snapGroupToEdges(transformedShapes, groupIds) ==
  LET outside == FilterIdx(shapes, {i \in 1..Len(shapes) : shapes[i].id \notin groupIds}, 1)
      ev == FlatVerts([i \in 1..Len(outside) |-> outside[i].verts])
      gv == FlatVerts([i \in 1..Len(transformedShapes) |-> transformedShapes[i].newVerts])
      dSq(g, e) == (gv[g].x - ev[e].x) * (gv[g].x - ev[e].x)
                   + (gv[g].y - ev[e].y) * (gv[g].y - ev[e].y)
      pairs == (1..Len(gv)) \X (1..Len(ev))
      inReach == {pr \in pairs :
                    dSq(pr[1], pr[2]) < (SNAP_THRESHOLD * U) * (SNAP_THRESHOLD * U)}
      before(a, b) == a[1] < b[1] \/ (a[1] = b[1] /\ a[2] < b[2])
  IN IF Len(transformedShapes) = 0 \/ Len(ev) = 0 \/ inReach = {} THEN transformedShapes
     ELSE LET best == CHOOSE a \in inReach :
                        \A b \in inReach :
                          \/ dSq(a[1], a[2]) < dSq(b[1], b[2])
                          \/ dSq(a[1], a[2]) = dSq(b[1], b[2]) /\ (a = b \/ before(a, b))
          IN MoveAll(transformedShapes, ev[best[2]].x - gv[best[1]].x,
                     ev[best[2]].y - gv[best[1]].y)

\* checkGroupOverlap(transformedShapes, groupIds)
checkGroupOverlap(transformedShapes, groupIds) ==
  \E t \in 1..Len(transformedShapes) : \E k \in 1..Len(shapes) :
    LET tr == transformedShapes[t]
        newCollisionVerts ==
          IF tr.type = "corner"
          THEN getCornerCollisionVerts(tr.newVerts[1], tr.newVerts[2], tr.newVerts[3],
                                       CornerStyleOf(tr.building))
          ELSE tr.newVerts
    IN /\ shapes[k].id \notin groupIds
       /\ \/ PolygonsCollide(newCollisionVerts, getCollisionVertices(shapes[k]))
          \/ CoincidentWith(tr.newVerts, shapes[k])

\* The group branch without the fallback to the position before the snap.
groupOutcome_keepSnap ==
  LET groupShapes == getShapesByIds(draggedGroupIds)
      moved == [i \in 1..Len(groupShapes) |->
                  Transformed(groupShapes[i],
                    IF isRotatingGroup
                    THEN rotateVertsAroundPoint(groupShapes[i].verts, groupRotationCenter.x,
                                                groupRotationCenter.y, groupRotationAngle)
                    ELSE offsetVertices(groupShapes[i].verts, dragOffset.x, dragOffset.y))]
      preSnap == IF isDraggingGroup /\ gridEnabled THEN snapGroupBoundingBoxToGrid(moved)
                 ELSE moved
      snapped == IF isDraggingGroup THEN snapGroupToEdges(preSnap, draggedGroupIds)
                 ELSE preSnap
  IN [shapes |-> snapped, hasOverlap |-> checkGroupOverlap(snapped, draggedGroupIds)]

\* The transformed group that handleMouseUp settles on (lines 2888-2928), and
\* whether it still overlaps.
groupOutcome ==
  LET groupShapes == getShapesByIds(draggedGroupIds)
      moved == [i \in 1..Len(groupShapes) |->
                  Transformed(groupShapes[i],
                    IF isRotatingGroup
                    THEN rotateVertsAroundPoint(groupShapes[i].verts, groupRotationCenter.x,
                                                groupRotationCenter.y, groupRotationAngle)
                    ELSE offsetVertices(groupShapes[i].verts, dragOffset.x, dragOffset.y))]
      preSnap == IF isDraggingGroup /\ gridEnabled THEN snapGroupBoundingBoxToGrid(moved)
                 ELSE moved
      snapped == IF isDraggingGroup THEN snapGroupToEdges(preSnap, draggedGroupIds)
                 ELSE preSnap
      snapOverlaps == checkGroupOverlap(snapped, draggedGroupIds)
      final == IF snapOverlaps /\ isDraggingGroup THEN preSnap ELSE snapped
  IN [shapes |-> final,
      hasOverlap |-> IF snapOverlaps /\ isDraggingGroup
                     THEN checkGroupOverlap(preSnap, draggedGroupIds) ELSE snapOverlaps]

(***************************************************************************)
(* The editor's handlers.  The view is at zoom 1 and pan (0, 0), so screen *)
(* and world coordinates agree; the pointer visits Points.                 *)
(***************************************************************************)
\* A session is followed for MaxEvents user events, during which the clock
\* advances by at most MaxTime milliseconds.
MaxEvents == 8
MaxTime == 1

PointA == UPt(20, 10)
PointB == UPt(200, 10)
Points == {PointA, PointB}

\* The floors the floor selector is used for.
EditFloors == {0, 1}

\* The shape kinds the number keys are used to select (the session starts with
\* square on the left button and triangle on the right).
LeftChoices == {"corner", "delete"}
RightChoices == {"stair"}

rotVars == <<isRotating, rotatingButton, rotationAngle, baseVertices, rotationShapeType,
             rotationStartX>>

snapshot == [shapes |-> allFloorShapes, items |-> allFloorItems]

\* prev.slice(-n)
LastN(list, n) == IF Len(list) <= n THEN list ELSE SubSeq(list, Len(list) - n + 1, Len(list))

\* A mutation of saveToHistory: one more snapshot kept.
saveToHistory_keep50 == LastN(shapesHistory, HISTORY_KEEP + 1) \o <<snapshot>>

\* saveToHistory(): the history after the push.
saveToHistory == LastN(shapesHistory, HISTORY_KEEP) \o <<snapshot>>

\* What a handler does to the design: push tells whether it called
\* saveToHistory and then setShapes or setPlacedItems, newShapes and newItems
\* are the lists left on the active floor.  undoLog records the design before
\* each such mutation.
Commit(push, newShapes, newItems) ==
  /\ shapesHistory' = IF push THEN saveToHistory ELSE shapesHistory
  /\ allFloorShapes' = [allFloorShapes EXCEPT ![currentFloor] = newShapes]
  /\ allFloorItems' = [allFloorItems EXCEPT ![currentFloor] = newItems]
  /\ undoLog' = IF push THEN Append(undoLog, snapshot) ELSE undoLog
  /\ UNCHANGED currentFloor

\* prev.filter(s => s.id !== id)
WithoutId(list, id) == FilterIdx(list, {i \in 1..Len(list) : list[i].id # id}, 1)

\* deltaX * 0.5, in degrees
DragAngle(p) == (p.x - rotationStartX) \div (2 * U)

\* isItemInBuildableArea(x, y, itemDef); every item of BASE_ITEMS has size 1 x 1.
isItemInBuildableArea(x, y) ==
  LET side == ITEM_GRID_SIZE * U
  IN \/ ~fiefMode
     \/ /\ isPointInBuildableArea(x, y)
        /\ isPointInBuildableArea(x + side, y)
        /\ isPointInBuildableArea(x, y + side)
        /\ isPointInBuildableArea(x + side, y + side)

\* doesItemOverlap(x, y, itemDef, excludeItemId); ids are positive, so
\* excludeItemId is truthy exactly when it is given.
doesItemOverlap(x, y, excludeItemId) ==
  LET side == ITEM_GRID_SIZE * U
  IN \E i \in 1..Len(placedItems) :
       /\ ~(excludeItemId # NoId /\ placedItems[i].id = excludeItemId)
       /\ ~ \/ x + side <= placedItems[i].x
            \/ x >= placedItems[i].x + side
            \/ y + side <= placedItems[i].y
            \/ y >= placedItems[i].y + side

Tick ==
  /\ now <= MaxTime
  /\ now' = now + 1
  /\ UNCHANGED <<designVars, shapesHistory, settingVars, fiefVars, placeVars, isLocked,
                 groupVars, clipboard, mousePosition, itemVars, savedPatterns, probe,
                 codecVars, undoLog>>

\* handleMouseMove with the pointer arriving at p
handleMouseMove(p) ==
  LET branch == IF itemMode /\ isDraggingPlacedItem /\ selectedItemId # NoId THEN "item"
                ELSE IF isLocked /\ isDraggingGroup /\ ~isRotatingGroup THEN "drag"
                ELSE IF isLocked /\ isRotatingGroup THEN "groupRotate"
                ELSE IF isLocked THEN "hover"
                ELSE IF isRotating /\ baseVertices # <<>> THEN "rotate"
                ELSE "hover"
      cell == ITEM_GRID_SIZE * U
      newX == RoundDiv(p.x - itemDragOffset.x, cell) * cell
      newY == RoundDiv(p.y - itemDragOffset.y, cell) * cell
      found == \E i \in 1..Len(placedItems) : placedItems[i].id = selectedItemId
      blocked == found /\ (\/ fiefMode /\ ~isItemInBuildableArea(newX, newY)
                           \/ doesItemOverlap(newX, newY, selectedItemId))
      newItems == IF branch # "item" \/ blocked THEN placedItems
                  ELSE [i \in 1..Len(placedItems) |->
                          IF placedItems[i].id = selectedItemId
                          THEN [placedItems[i] EXCEPT !.x = newX, !.y = newY]
                          ELSE placedItems[i]]
  IN /\ mousePosition' = p
     /\ allFloorItems' = [allFloorItems EXCEPT ![currentFloor] = newItems]
     /\ undoLog' = IF newItems # placedItems /\ ~itemMoved THEN Append(undoLog, snapshot)
                   ELSE undoLog
     /\ itemMoved' = (itemMoved \/ newItems # placedItems)
     /\ dragOffset' = IF branch = "drag" THEN Pt(p.x - dragStart.x, p.y - dragStart.y)
                      ELSE dragOffset
     /\ groupRotationAngle' = IF branch = "groupRotate" THEN DragAngle(p)
                              ELSE groupRotationAngle
     /\ rotationAngle' = IF branch = "rotate" THEN DragAngle(p) ELSE rotationAngle
     /\ UNCHANGED <<currentFloor, allFloorShapes, shapesHistory, settingVars, fiefVars,
                    isRotating, rotatingButton, baseVertices, rotationShapeType,
                    rotationStartX, gridEnabled, isLocked, isDraggingGroup, isRotatingGroup,
                    draggedGroupIds, dragStart, groupRotationCenter, clipboard,
                    itemSidebarOpen, selectedItemId, isDraggingPlacedItem, itemDragOffset,
                    savedPatterns, now, probe, codecVars>>

\* savePattern(name, groupShapes): the new pattern (the name is display text).
savePattern(groupShapes) ==
  LET n == Len(groupShapes)
      xs == [i \in 1..n |-> Pt(groupShapes[i].x, groupShapes[i].y)]
      patternCx == MeanX(xs)
      patternCy == MeanY(xs)
  IN [id |-> now,
      shapes |-> [i \in 1..n |->
        LET sh == groupShapes[i]
        IN [type |-> sh.type, relX |-> sh.x - patternCx, relY |-> sh.y - patternCy,
            rotation |-> sh.rotation,
            localVerts |-> offsetVertices(sh.verts, -sh.x, -sh.y)]]]

\* handleMouseDown for the left or right button at the pointer's position (a
\* press follows a move of the pointer onto the canvas).  In
\* lock mode a right press on a shape opens the pattern dialog, which is then
\* confirmed (savePattern, lines 4944-4970).
handleMouseDown(button, shiftKey) ==
  LET p == mousePosition
      hit == findShapeAtPoint(p.x, p.y)
      shapeType == IF button = "left" THEN leftClickShape ELSE rightClickShape
      branch ==
        IF isLocked
        THEN (IF hit = 0 THEN "none"
              ELSE IF button = "right" THEN "pattern"
              ELSE IF shiftKey THEN "groupRotate" ELSE "groupDrag")
        ELSE IF button = "left" /\ shiftKey THEN "none"
        ELSE IF isRotating /\ button # rotatingButton THEN "cancel"
        ELSE IF itemMode THEN "none"
        ELSE IF shapeType = "delete" THEN (IF hit = 0 THEN "none" ELSE "delete")
        ELSE "place"
      groupIds == findConnectedGroup(hit)
  IN /\ p \in Points
     /\ branch = "place" => shapeType # "triangle"
     /\ Commit(branch = "delete",
               IF branch = "delete" THEN WithoutId(shapes, shapes[hit].id) ELSE shapes,
               placedItems)
     /\ savedPatterns' =
          IF branch = "pattern"
          THEN Append(savedPatterns, savePattern(getShapesByIds(groupIds)))
          ELSE savedPatterns
     /\ draggedGroupIds' = IF branch \in {"groupRotate", "groupDrag"} THEN groupIds
                           ELSE draggedGroupIds
     /\ groupRotationCenter' =
          IF branch = "groupRotate" THEN getGroupCentroid(getShapesByIds(groupIds))
          ELSE groupRotationCenter
     /\ isRotatingGroup' = (isRotatingGroup \/ branch = "groupRotate")
     /\ groupRotationAngle' = IF branch = "groupRotate" THEN 0 ELSE groupRotationAngle
     /\ isDraggingGroup' = (isDraggingGroup \/ branch = "groupDrag")
     /\ dragStart' = IF branch = "groupDrag" THEN p ELSE dragStart
     /\ dragOffset' = IF branch = "groupDrag" THEN Pt(0, 0) ELSE dragOffset
     /\ isRotating' = IF branch = "cancel" THEN FALSE
                      ELSE IF branch = "place" THEN TRUE ELSE isRotating
     /\ rotatingButton' = IF branch = "cancel" THEN NULL
                          ELSE IF branch = "place" THEN button ELSE rotatingButton
     /\ baseVertices' = IF branch = "cancel" THEN <<>>
                        ELSE IF branch = "place" THEN proposedVertices(p.x, p.y, shapeType)
                        ELSE baseVertices
     /\ rotationAngle' = IF branch \in {"cancel", "place"} THEN 0 ELSE rotationAngle
     /\ rotationStartX' = IF branch \in {"groupRotate", "place"} THEN p.x ELSE rotationStartX
     /\ rotationShapeType' = IF branch = "place" THEN shapeType ELSE rotationShapeType
     /\ UNCHANGED <<settingVars, fiefVars, gridEnabled, isLocked, clipboard, mousePosition,
                    itemVars, now, probe, codecVars>>

\* The group branch of handleMouseUp: the shapes after the gesture is applied.
movedGroup(final) ==
  [i \in 1..Len(shapes) |->
     IF shapes[i].id \notin draggedGroupIds THEN shapes[i]
     ELSE LET t == CHOOSE t \in 1..Len(final) :
                     /\ final[t].id = shapes[i].id
                     /\ \A u \in 1..(t - 1) : final[u].id # shapes[i].id
              newVerts == final[t].newVerts
          IN [shapes[i] EXCEPT !.x = MeanX(newVerts), !.y = MeanY(newVerts),
                               !.rotation = IF isRotatingGroup THEN @ + groupRotationAngle
                                            ELSE @,
                               !.verts = newVerts]]

\* handleMouseUp for the left or right button
handleMouseUp(button) ==
  LET branch == IF isDraggingPlacedItem THEN "item"
                ELSE IF isLocked /\ (isDraggingGroup \/ isRotatingGroup)
                        /\ draggedGroupIds # {} THEN "group"
                ELSE IF isRotating /\ baseVertices # <<>> THEN "place"
                ELSE "none"
      out == groupOutcome
      rotatedVerts == rotateVertices(baseVertices, rotationAngle)
      placing == /\ branch = "place"
                 /\ button = rotatingButton
                 /\ ~checkOverlap(rotatedVerts, rotationShapeType)
      moving == branch = "group" /\ ~out.hasOverlap
  IN /\ Commit(placing \/ moving,
               IF placing
               THEN Append(shapes, verticesToShape(rotatedVerts, rotationShapeType, now,
                                                   buildingType))
               ELSE IF moving THEN movedGroup(out.shapes) ELSE shapes,
               placedItems)
     /\ isDraggingPlacedItem' = IF branch = "item" THEN FALSE ELSE isDraggingPlacedItem
     /\ isDraggingGroup' = IF branch = "group" THEN FALSE ELSE isDraggingGroup
     /\ isRotatingGroup' = IF branch = "group" THEN FALSE ELSE isRotatingGroup
     /\ draggedGroupIds' = IF branch = "group" THEN {} ELSE draggedGroupIds
     /\ dragOffset' = IF branch = "group" THEN Pt(0, 0) ELSE dragOffset
     /\ groupRotationAngle' = IF branch = "group" THEN 0 ELSE groupRotationAngle
     /\ isRotating' = IF branch = "place" THEN FALSE ELSE isRotating
     /\ rotatingButton' = IF branch = "place" THEN NULL ELSE rotatingButton
     /\ baseVertices' = IF branch = "place" THEN <<>> ELSE baseVertices
     /\ rotationAngle' = IF branch = "place" THEN 0 ELSE rotationAngle
     /\ UNCHANGED <<settingVars, fiefVars, rotationShapeType, rotationStartX, gridEnabled,
                    isLocked, dragStart, groupRotationCenter, clipboard, mousePosition,
                    itemSidebarOpen, selectedItemId, itemDragOffset, itemMoved,
                    savedPatterns, now, probe, codecVars>>

\* onMouseLeave of the canvas, while some gesture is in progress (with none
\* in progress it changes nothing that is modelled).
handleMouseLeave ==
  /\ isRotating \/ isDraggingGroup \/ isRotatingGroup
  /\ isRotating' = FALSE
  /\ baseVertices' = <<>>
  /\ rotationAngle' = 0
  /\ UNCHANGED <<designVars, shapesHistory, settingVars, fiefVars, rotatingButton,
                 rotationShapeType, rotationStartX, gridEnabled, isLocked, groupVars,
                 clipboard, mousePosition, itemVars, savedPatterns, now, probe, codecVars,
                 undoLog>>

\* A middle click: the press and the release at the pointer's position
\* (handleMouseUp, e.button === 1, with less than 5 pixels of movement).
handleMiddleClick ==
  LET p == mousePosition
      hit == findShapeAtPoint(p.x, p.y)
      verts == proposedVertices(p.x, p.y, middleClickAction)
      deleting == middleClickAction = "delete" /\ hit # 0
      placing == middleClickAction # "delete" /\ ~checkOverlap(verts, middleClickAction)
  IN /\ p \in Points
     /\ ~isLocked /\ ~itemMode
     /\ middleClickAction # "triangle"
     /\ Commit(deleting \/ placing,
               IF deleting THEN WithoutId(shapes, shapes[hit].id)
               ELSE IF placing
               THEN Append(shapes, verticesToShape(verts, middleClickAction, now,
                                                   buildingType))
               ELSE shapes,
               placedItems)
     /\ UNCHANGED <<settingVars, fiefVars, placeVars, isLocked, groupVars, clipboard,
                    mousePosition, itemVars, savedPatterns, now, probe, codecVars>>

\* handleKeyDown, Ctrl+Z
KeyUndo ==
  /\ IF Len(shapesHistory) > 0
     THEN LET lastState == shapesHistory[Len(shapesHistory)]
          IN /\ allFloorShapes' = lastState.shapes
             /\ allFloorItems' = lastState.items
             /\ shapesHistory' = SubSeq(shapesHistory, 1, Len(shapesHistory) - 1)
     ELSE UNCHANGED <<allFloorShapes, allFloorItems, shapesHistory>>
  /\ undoLog' = IF Len(shapesHistory) > 0 /\ undoLog # <<>>
                THEN SubSeq(undoLog, 1, Len(undoLog) - 1) ELSE undoLog
  /\ UNCHANGED <<currentFloor, settingVars, fiefVars, placeVars, isLocked, groupVars,
                 clipboard, mousePosition, itemVars, savedPatterns, now, probe, codecVars>>

\* handleKeyDown, Ctrl+C: the clipboard written for the group under the pointer,
\* None when no shape is under it.
copiedGroup ==
  LET p == mousePosition
      hits == {i \in 1..Len(shapes) :
                 Len(shapes[i].verts) >= 3 /\ pointInPolygon(p.x, p.y, shapes[i].verts)}
  IN IF hits = {} THEN None
     ELSE LET shapeAtMouse == CHOOSE i \in hits : \A j \in hits : i <= j
              groupShapes == getShapesByIds(findConnectedGroup(shapeAtMouse))
              all == FlatVerts([i \in 1..Len(groupShapes) |-> groupShapes[i].verts])
              centroidX == MeanX(all)
              centroidY == MeanY(all)
          IN Some([i \in 1..Len(groupShapes) |->
                     [type |-> groupShapes[i].type, building |-> groupShapes[i].building,
                      rotation |-> groupShapes[i].rotation,
                      verts |-> offsetVertices(groupShapes[i].verts, -centroidX,
                                               -centroidY)]])

KeyCopy ==
  /\ isLocked
  /\ clipboard' = IF copiedGroup = None THEN clipboard ELSE copiedGroup[1]
  /\ UNCHANGED <<designVars, shapesHistory, settingVars, fiefVars, placeVars, isLocked,
                 groupVars, mousePosition, itemVars, savedPatterns, now, probe, codecVars,
                 undoLog>>

\* handleKeyDown, Ctrl+V: the shapes it creates.
pastedShapes ==
  [i \in 1..Len(clipboard) |->
     [id |-> now + (i - 1), type |-> clipboard[i].type, building |-> clipboard[i].building,
      rotation |-> clipboard[i].rotation, x |-> mousePosition.x, y |-> mousePosition.y,
      verts |-> offsetVertices(clipboard[i].verts, mousePosition.x, mousePosition.y)]]

KeyPaste ==
  /\ isLocked
  /\ clipboard # <<>>
  /\ Commit(TRUE, shapes \o pastedShapes, placedItems)
  /\ UNCHANGED <<settingVars, fiefVars, placeVars, isLocked, groupVars, clipboard,
                 mousePosition, itemVars, savedPatterns, now, probe, codecVars>>

\* handleKeyDown, Delete or Backspace
KeyDelete ==
  /\ selectedItemId # NoId
  /\ Commit(TRUE, shapes, WithoutId(placedItems, selectedItemId))
  /\ selectedItemId' = NoId
  /\ UNCHANGED <<settingVars, fiefVars, placeVars, isLocked, groupVars, clipboard,
                 mousePosition, itemSidebarOpen, isDraggingPlacedItem, itemDragOffset,
                 itemMoved, savedPatterns, now, probe, codecVars>>

\* handleKeyDown, L; closing the sidebar runs the effect on itemSidebarOpen
\* (lines 1337-1352).
KeyL ==
  LET closing == ~isLocked /\ itemSidebarOpen
  IN /\ isLocked' = ~isLocked
     /\ itemSidebarOpen' = IF ~isLocked THEN FALSE ELSE itemSidebarOpen
     /\ selectedItemId' = IF closing THEN NoId ELSE selectedItemId
     /\ isDraggingPlacedItem' = IF closing THEN FALSE ELSE isDraggingPlacedItem
     /\ UNCHANGED <<designVars, shapesHistory, settingVars, fiefVars, placeVars, groupVars,
                    clipboard, mousePosition, itemDragOffset, itemMoved, savedPatterns, now,
                    probe, codecVars, undoLog>>

\* The lock button of the toolbar
LockButton ==
  LET closing == ~isLocked /\ itemSidebarOpen
  IN /\ isLocked' = ~isLocked
     /\ isDraggingGroup' = FALSE
     /\ isRotatingGroup' = FALSE
     /\ itemSidebarOpen' = IF ~isLocked THEN FALSE ELSE itemSidebarOpen
     /\ selectedItemId' = IF closing THEN NoId ELSE selectedItemId
     /\ isDraggingPlacedItem' = IF closing THEN FALSE ELSE isDraggingPlacedItem
     /\ UNCHANGED <<designVars, shapesHistory, settingVars, fiefVars, placeVars,
                    draggedGroupIds, dragStart, dragOffset, groupRotationAngle,
                    groupRotationCenter, clipboard, mousePosition, itemDragOffset, itemMoved,
                    savedPatterns, now, probe, codecVars, undoLog>>

\* handleKeyDown, 1..5 (left click shape) and their shifted keys (right click)
KeyShape(shiftKey, shapeType) ==
  /\ ~isLocked /\ ~itemMode
  /\ leftClickShape' = IF shiftKey THEN leftClickShape ELSE shapeType
  /\ rightClickShape' = IF shiftKey THEN shapeType ELSE rightClickShape
  /\ UNCHANGED <<designVars, shapesHistory, buildingType, middleClickAction, fiefVars,
                 placeVars, isLocked, groupVars, clipboard, mousePosition, itemVars,
                 savedPatterns, now, probe, codecVars, undoLog>>

\* handleKeyDown, G, and the grid button
ToggleGrid ==
  /\ gridEnabled' = ~gridEnabled
  /\ UNCHANGED <<designVars, shapesHistory, settingVars, fiefVars, rotVars, isLocked,
                 groupVars, clipboard, mousePosition, itemVars, savedPatterns, now, probe,
                 codecVars, undoLog>>

\* The Items button and the Back to Design Mode button, with the effect on
\* itemSidebarOpen (lines 1337-1352) that follows the change.
OpenItemSidebar ==
  /\ ~itemSidebarOpen
  /\ itemSidebarOpen' = TRUE
  /\ isLocked' = FALSE
  /\ isDraggingGroup' = FALSE
  /\ isRotatingGroup' = FALSE
  /\ UNCHANGED <<designVars, shapesHistory, settingVars, fiefVars, placeVars,
                 draggedGroupIds, dragStart, dragOffset, groupRotationAngle,
                 groupRotationCenter, clipboard, mousePosition, selectedItemId,
                 isDraggingPlacedItem, itemDragOffset, itemMoved, savedPatterns, now, probe,
                 codecVars, undoLog>>

CloseItemSidebar ==
  /\ itemSidebarOpen
  /\ itemSidebarOpen' = FALSE
  /\ selectedItemId' = NoId
  /\ isDraggingPlacedItem' = FALSE
  /\ UNCHANGED <<designVars, shapesHistory, settingVars, fiefVars, placeVars, isLocked,
                 groupVars, clipboard, mousePosition, itemDragOffset, itemMoved,
                 savedPatterns, now, probe, codecVars, undoLog>>

\* The floor selector
SelectFloor(f) ==
  /\ currentFloor' = f
  /\ UNCHANGED <<allFloorShapes, allFloorItems, shapesHistory, settingVars, fiefVars,
                 placeVars, isLocked, groupVars, clipboard, mousePosition, itemVars,
                 savedPatterns, now, probe, codecVars, undoLog>>

\* The select of the middle click action
SetMiddleClickAction(action) ==
  /\ middleClickAction' = action
  /\ UNCHANGED <<designVars, shapesHistory, buildingType, leftClickShape, rightClickShape,
                 fiefVars, placeVars, isLocked, groupVars, clipboard, mousePosition,
                 itemVars, savedPatterns, now, probe, codecVars, undoLog>>

\* handleClear; its button is disabled on an empty floor outside fief mode.
handleClear ==
  /\ ~(Len(shapes) = 0 /\ Len(placedItems) = 0 /\ ~fiefMode)
  /\ shapesHistory' = saveToHistory
  /\ allFloorShapes' = EmptyFloors
  /\ allFloorItems' = EmptyFloors
  /\ currentFloor' = 0
  /\ stakesInventory' = MAX_STAKES
  /\ claimedAreas' = <<>>
  /\ placedStakes' = <<>>
  /\ stakeTimer' = stakeTimerEffect(<<>>)
  /\ selectedItemId' = NoId
  /\ undoLog' = Append(undoLog, snapshot)
  /\ UNCHANGED <<settingVars, fiefMode, fiefType, fiefWidth, fiefHeight, fiefPosition,
                 fiefPadding, draggingStake, placeVars, isLocked, groupVars, clipboard, mousePosition,
                 itemSidebarOpen, isDraggingPlacedItem, itemDragOffset, itemMoved,
                 savedPatterns, now, probe, codecVars>>

\* The Clear Items button of the sidebar
ClearItems ==
  /\ itemSidebarOpen
  /\ Len(placedItems) > 0
  /\ Commit(TRUE, shapes, <<>>)
  /\ UNCHANGED <<settingVars, fiefVars, placeVars, isLocked, groupVars, clipboard,
                 mousePosition, itemVars, savedPatterns, now, probe, codecVars>>

\* handleItemDrop: an item dragged from the palette of the sidebar and dropped at p
handleItemDrop(itemType, p) ==
  LET cell == ITEM_GRID_SIZE * U
      x == RoundDiv(p.x, cell) * cell
      y == RoundDiv(p.y, cell) * cell
      refused == (fiefMode /\ ~isItemInBuildableArea(x, y)) \/ doesItemOverlap(x, y, NoId)
  IN /\ itemSidebarOpen
     /\ Commit(~refused, shapes,
               IF refused THEN placedItems
               ELSE Append(placedItems, [id |-> now, itemType |-> itemType, x |-> x, y |-> y]))
     /\ UNCHANGED <<settingVars, fiefVars, placeVars, isLocked, groupVars, clipboard,
                    mousePosition, itemVars, savedPatterns, now, probe, codecVars>>

\* placePattern(pattern, worldX, worldY): the shapes it creates.
placePattern(pattern, worldX, worldY) ==
  [i \in 1..Len(pattern.shapes) |->
     LET ps == pattern.shapes[i]
         x == worldX + ps.relX
         y == worldY + ps.relY
     IN [id |-> now + (i - 1), type |-> ps.type, x |-> x, y |-> y, rotation |-> ps.rotation,
         building |-> buildingType, verts |-> offsetVertices(ps.localVerts, x, y)]]

\* handlePatternDrop: saved pattern n dragged from the panel and dropped at p
handlePatternDrop(n, p) ==
  /\ Commit(TRUE, shapes \o placePattern(savedPatterns[n], p.x, p.y), placedItems)
  /\ UNCHANGED <<settingVars, fiefVars, placeVars, isLocked, groupVars, clipboard,
                 mousePosition, itemVars, savedPatterns, now, probe, codecVars>>

\* handleItemDelete(itemId), from the context menu of a placed item in item mode
handleItemDelete(itemId) ==
  /\ itemMode
  /\ Commit(TRUE, shapes, WithoutId(placedItems, itemId))
  /\ selectedItemId' = IF selectedItemId = itemId THEN NoId ELSE selectedItemId
  /\ UNCHANGED <<settingVars, fiefVars, placeVars, isLocked, groupVars, clipboard,
                 mousePosition, itemSidebarOpen, isDraggingPlacedItem, itemDragOffset,
                 itemMoved, savedPatterns, now, probe, codecVars>>

\* handlePlacedItemMouseDown(e, item): a press on the placed item under the pointer
handlePlacedItemMouseDown(i) ==
  LET item == placedItems[i]
      side == ITEM_GRID_SIZE * U
  IN /\ itemMode
     /\ mousePosition \in Points
     /\ mousePosition.x >= item.x /\ mousePosition.x <= item.x + side
     /\ mousePosition.y >= item.y /\ mousePosition.y <= item.y + side
     /\ shapesHistory' = saveToHistory
     /\ UNCHANGED <<designVars, undoLog>>
     /\ selectedItemId' = item.id
     /\ itemDragOffset' = Pt(mousePosition.x - item.x, mousePosition.y - item.y)
     /\ isDraggingPlacedItem' = TRUE
     /\ itemMoved' = FALSE
     /\ UNCHANGED <<settingVars, fiefVars, placeVars, isLocked, groupVars, clipboard,
                    mousePosition, itemSidebarOpen, savedPatterns, now, probe, codecVars>>

\* One user event of the session.
Event(A) ==
  /\ events < MaxEvents
  /\ events' = events + 1
  /\ A

Next ==
  \/ Tick /\ UNCHANGED events
  \/ \E p \in Points : Event(handleMouseMove(p))
  \/ \E button \in {"left", "right"}, shiftKey \in BOOLEAN :
       Event(handleMouseDown(button, shiftKey))
  \/ \E button \in {"left", "right"} : Event(handleMouseUp(button))
  \/ Event(handleMouseLeave)
  \/ Event(handleMiddleClick)
  \/ Event(KeyUndo)
  \/ Event(KeyCopy)
  \/ Event(KeyPaste)
  \/ Event(KeyDelete)
  \/ Event(KeyL)
  \/ Event(LockButton)
  \/ \E shapeType \in LeftChoices : Event(KeyShape(FALSE, shapeType))
  \/ \E shapeType \in RightChoices : Event(KeyShape(TRUE, shapeType))
  \/ Event(ToggleGrid)
  \/ Event(OpenItemSidebar)
  \/ Event(CloseItemSidebar)
  \/ \E f \in EditFloors : Event(SelectFloor(f))
  \/ Event(SetMiddleClickAction("square"))
  \/ Event(handleClear)
  \/ Event(ClearItems)
  \/ \E p \in Points : Event(handleItemDrop("spice-generator", p))
  \/ \E n \in 1..Len(savedPatterns), p \in Points : Event(handlePatternDrop(n, p))
  \/ \E i \in 1..Len(placedItems) : Event(handleItemDelete(placedItems[i].id))
  \/ \E i \in 1..Len(placedItems) : Event(handlePlacedItemMouseDown(i))

Spec == Init /\ [][Next]_vars

(***************************************************************************)
(* Properties of the editor.                                               *)
(***************************************************************************)
\* A step in which a handler pushed a snapshot and appended shapes to the
\* active floor.
AddsShapes ==
  /\ shapesHistory' = saveToHistory
  /\ currentFloor' = currentFloor
  /\ Len(shapes') > Len(shapes)
  /\ SubSeq(shapes', 1, Len(shapes)) = shapes

\* C1: a shape is created only by a successful commit through the overlap
\* detector: every shape that an operation adds to the active floor is one
\* that checkOverlap accepts against the shapes already on that floor.
C1_AddedShapesAccepted ==
  [][AddsShapes =>
       \A i \in (Len(shapes) + 1)..Len(shapes') :
         ~checkOverlap(shapes'[i].verts, shapes'[i].type)]_vars

\* A step of Ctrl+Z on a history that is not empty.
UndoStep ==
  /\ Len(shapesHistory) > 0
  /\ shapesHistory' = SubSeq(shapesHistory, 1, Len(shapesHistory) - 1)

\* C7: single-step undo works for every mutation kind: an undo restores the
\* shape lists and item lists of all floors to what they were immediately
\* before the latest mutation not yet undone (so k undos after k mutations
\* restore the state before the first of them).
C7_UndoRestoresStateBeforeMutation ==
  [][(UndoStep /\ undoLog # <<>>) =>
       /\ allFloorShapes' = undoLog[Len(undoLog)].shapes
       /\ allFloorItems' = undoLog[Len(undoLog)].items]_vars

\* C9: for every shape on every floor the stored position (x, y) is the
\* arithmetic mean of the stored vertices.
C9_CentroidIsMeanOfVertices ==
  \A f \in Floors : \A i \in 1..Len(allFloorShapes[f]) :
    LET sh == allFloorShapes[f][i]
    IN sh.x = MeanX(sh.verts) /\ sh.y = MeanY(sh.verts)

\* C10: no two shapes on the same floor have the same id.
C10_ShapeIdsUniquePerFloor ==
  \A f \in Floors : \A i, j \in 1..Len(allFloorShapes[f]) :
    i # j => allFloorShapes[f][i].id # allFloorShapes[f][j].id

(***************************************************************************)
(* The history at its capacity: one item is dropped and then pressed again *)
(* and again, each press pushing a snapshot, with undos in between.        *)
(***************************************************************************)
NextHist ==
  \/ OpenItemSidebar /\ UNCHANGED events
  \/ handleItemDrop("spice-generator", PointA) /\ UNCHANGED events
  \/ handleMouseMove(PointA) /\ UNCHANGED events
  \/ \E i \in 1..Len(placedItems) : handlePlacedItemMouseDown(i) /\ UNCHANGED events
  \/ handleMouseUp("left") /\ UNCHANGED events
  \/ KeyUndo /\ UNCHANGED events

SpecHist == Init /\ [][NextHist]_vars

\* C8: the undo history never holds more than 50 snapshots; a push onto a
\* full history drops the oldest snapshot; an undo on an empty history changes
\* nothing.
C8_HistoryAtMostFifty ==
  /\ [](Len(shapesHistory) <= 50)
  /\ [][(Len(shapesHistory) = 50 /\ shapesHistory' # shapesHistory /\ ~UndoStep) =>
          shapesHistory' = Append(Tail(shapesHistory), snapshot)]_vars
  /\ [][(KeyUndo /\ shapesHistory = <<>>) =>
          UNCHANGED <<allFloorShapes, allFloorItems, shapesHistory>>]_vars

\* A full history whose oldest snapshot, the empty design, has been dropped.
C8_Witness ==
  /\ Len(shapesHistory) = 50
  /\ shapesHistory[1].items[0] # <<>>

(***************************************************************************)
(* The geometry kernel as functions: direct calls of getVertices,          *)
(* verticesToShape, calculateSnappedVertices and getCornerCollisionVerts   *)
(* on a small committed layout.                                            *)
(***************************************************************************)
ShapeKinds == {"square", "stair", "triangle", "corner"}

\* Rotations (degrees) and centroids (world units) of the poses drawn.
PoseRotations == {0, 90, 180, 270}

PoseCentres == { <<0, 0>>, <<25, 25>>, <<-40, 10>> }

\* A shape given by its pose only, as a legacy share link stores it.
PoseShape(type, ux, uy, rotation, id) ==
  LET pose == [id |-> id, type |-> type, x |-> ux * U, y |-> uy * U,
               rotation |-> rotation, building |-> "atreides"]
  IN [id |-> id, type |-> type, x |-> pose.x, y |-> pose.y, rotation |-> rotation,
      building |-> "atreides", verts |-> getVertices(pose)]

\* The corner that a press right of and above the middle of the right edge of
\* the first square of a design (centred in a grid cell) snaps onto that edge.
SnappedCorner ==
  LET first == SquareAt(25, 25, 1)
      edge == getShapeEdges(first)[2]
  IN verticesToShape(calculateSnappedVertices(edge, "corner", edge.midX + U, edge.midY - U),
                     "corner", 2, "atreides")

\* The committed layouts: the origin square as placed, the origin square as
\* loaded with rotation 0, and a first square with a corner snapped on it.
KernelLayouts ==
  { << SquareAt(0, 0, 1) >>,
    << PoseShape("square", 0, 0, 0, 1) >>,
    << SquareAt(25, 25, 1), SnappedCorner >> }

InitKernel ==
  /\ \E layout \in KernelLayouts : allFloorShapes = [EmptyFloors EXCEPT ![0] = layout]
  /\ currentFloor = 0
  /\ allFloorItems = EmptyFloors
  /\ InitSettings
  /\ InitFief
  /\ InitEditor

kernelFrame == <<designVars, shapesHistory, settingVars, fiefVars, placeVars, isLocked,
                 groupVars, clipboard, mousePosition, itemVars, savedPatterns, now,
                 codecVars, undoLog, events>>

\* verticesToShape(getVertices(pose), type, id, building)
CallPoseRoundTrip ==
  \E type \in ShapeKinds, c \in PoseCentres, rotation \in PoseRotations :
    LET pose == [id |-> 9, type |-> type, x |-> c[1] * U, y |-> c[2] * U,
                 rotation |-> rotation, building |-> buildingType]
    IN /\ probe' = Some([op |-> "pose", pose |-> pose,
                         result |-> verticesToShape(getVertices(pose), type, 9, buildingType)])
       /\ UNCHANGED kernelFrame

\* The pointer offsets (world units) from the middle of the edge snapped onto.
SnapOffsets == {-10, 10}

\* What a press near edge k of the layout commits: the shape made from
\* calculateSnappedVertices(edge, type, mouseX, mouseY) and checkOverlap's verdict.
CallEdgeSnap ==
  \E k \in 1..Len(allEdges), type \in ShapeKinds, mx \in SnapOffsets, my \in SnapOffsets :
    LET edge == allEdges[k]
        verts == calculateSnappedVertices(edge, type, edge.midX + mx * U, edge.midY + my * U)
    IN /\ probe' = Some([op |-> "snap", edgeIndex |-> k, edge |-> edge,
                         result |-> verticesToShape(verts, type, 9, buildingType),
                         overlap |-> checkOverlap(verts, type)])
       /\ UNCHANGED kernelFrame

CornerStyles == {"round", "stepped", "diagonal"}

\* The directions (world units) of a corner's two legs.
LegDirections == { <<50, 0>>, <<0, 50>>, <<-50, 0>>, <<0, -50>> }

\* getCornerCollisionVerts(corner, end1, end2, cornerStyle)
CallGetCornerCollisionVerts ==
  \E style \in CornerStyles, c \in PoseCentres, l1 \in LegDirections, l2 \in LegDirections :
    LET corner == UPt(c[1], c[2])
        end1 == UPt(c[1] + l1[1], c[2] + l1[2])
        end2 == UPt(c[1] + l2[1], c[2] + l2[2])
    IN /\ probe' = Some([op |-> "cornerVerts", style |-> style, corner |-> corner,
                         end1 |-> end1, end2 |-> end2,
                         result |-> getCornerCollisionVerts(corner, end1, end2, style)])
       /\ UNCHANGED kernelFrame

NextKernel ==
  \/ CallPoseRoundTrip
  \/ CallEdgeSnap
  \/ CallGetCornerCollisionVerts

SpecKernel == InitKernel /\ [][NextKernel]_vars

\* C11: pose round trip: for every kind and every pose, the pose that
\* verticesToShape derives from the vertices getVertices generates for that
\* pose has the same centroid and the same rotation modulo 360 degrees.
C11_PoseRoundTrip ==
  (probe # None /\ probe[1].op = "pose") =>
    /\ probe[1].result.x = probe[1].pose.x
    /\ probe[1].result.y = probe[1].pose.y
    /\ (probe[1].result.rotation - probe[1].pose.rotation) % 360 = 0

\* C12: a square with centroid at the world origin and rotation 0 has the
\* vertices (-25,-25), (25,-25), (25,25), (-25,25); a second square edge-snapped
\* against its right edge has centroid (50, 0), the same rotation value as the
\* first square, and checkOverlap reports no overlap for it.
C12_SecondSquareSnapsRight ==
  ( /\ probe # None /\ probe[1].op = "snap" /\ probe[1].result.type = "square"
    /\ Len(shapes) = 1 /\ shapes[1].x = 0 /\ shapes[1].y = 0
    /\ probe[1].edge.v1 = UPt(25, -25) /\ probe[1].edge.v2 = UPt(25, 25) ) =>
    /\ shapes[1].verts = << UPt(-25, -25), UPt(25, -25), UPt(25, 25), UPt(-25, 25) >>
    /\ probe[1].result.x = 50 * U
    /\ probe[1].result.y = 0
    /\ (probe[1].result.rotation - shapes[1].rotation) % 360 = 0
    /\ probe[1].overlap = FALSE

\* normal . (centroid - midpoint) <= 0 for every edge record of a shape, the
\* centroid being the mean of the shape's vertices.
NormalsOutward(shape) ==
  LET edges == getShapeEdges(shape)
  IN \A i \in 1..Len(edges) :
       edges[i].nx * (MeanX(shape.verts) - edges[i].midX)
         + edges[i].ny * (MeanY(shape.verts) - edges[i].midY) <= 0

\* C13: outward-normal invariant: for every edge record that getShapeEdges
\* returns for a shape of the design (made by free placement, by edge-snapping
\* or by a group move or rotation), the dot product of the edge's normal with
\* (shape centroid - edge midpoint) is <= 0.
C13_NormalsPointOutward ==
  /\ \A f \in Floors : \A i \in 1..Len(allFloorShapes[f]) : NormalsOutward(allFloorShapes[f][i])
  /\ (probe # None /\ probe[1].op = "snap" /\ ~probe[1].overlap) =>
       NormalsOutward(probe[1].result)

\* The shapes (indices into shapes) reachable from those in S through at most n
\* links of the shares-an-edge relation.
RECURSIVE EdgeClosure(_, _)
EdgeClosure(S, n) ==
  IF n = 0 THEN S
  ELSE EdgeClosure(S \cup {k \in 1..Len(shapes) :
                             \E j \in S : shapesShareEdge(shapes[j], shapes[k])}, n - 1)

\* C14: findConnectedGroup(seed) is exactly the transitive closure of the
\* shares-an-edge relation from the seed over the shapes of the active floor:
\* the shapes whose id it returns are the seed and every shape reachable from
\* it through a chain of edge-sharing shapes, and no other shape.
C14_GroupIsEdgeClosure ==
  \A seed \in 1..Len(shapes) :
    {k \in 1..Len(shapes) : shapes[k].id \in findConnectedGroup(seed)}
      = EdgeClosure({seed}, Len(shapes))

\* C15: getCornerCollisionVerts returns a polygon of exactly 14 points for the
\* round style, 8 points for the stepped style and 5 points for the diagonal
\* style, for every corner/end1/end2 triple.
C15_CornerVertexCounts ==
  (probe # None /\ probe[1].op = "cornerVerts") =>
    Len(probe[1].result) = CASE probe[1].style = "round" -> 14
                             [] probe[1].style = "stepped" -> 8
                             [] probe[1].style = "diagonal" -> 5

\* A round polygon of a right-angled corner: the corner, then the arc from end1
\* to end2.
C15_Witness ==
  /\ probe # None /\ probe[1].op = "cornerVerts" /\ probe[1].style = "round"
  /\ probe[1].corner = UPt(25, 25) /\ probe[1].end1 = UPt(75, 25) /\ probe[1].end2 = UPt(25, 75)
  /\ Len(probe[1].result) = 14
  /\ probe[1].result[1] = probe[1].corner
  /\ probe[1].result[2] = probe[1].end1
  /\ probe[1].result[14] = probe[1].end2

(***************************************************************************)
(* The fief and its stakes.  A stake's countdown is kept in tenths of a    *)
(* second.                                                                 *)
(***************************************************************************)
\* newCountdown <= 0.  The countdown is a double that loses 0.1 per tick:
\* STAKE_COUNTDOWN less fifty times 0.1 is 1.03e-15, not 0, so the stored
\* value of 0 tenths stands for a positive number and only a value below it
\* is <= 0.
CountdownExpired(tenths) == tenths < 0

\* A mutation of the map callback of the interval: the countdown is not
\* decremented.
tickStake_noDecrement(stake) ==
  LET newCountdown == stake.countdown
  IN IF stake.claimed THEN stake
     ELSE IF CountdownExpired(newCountdown)
     THEN [stake EXCEPT !.countdown = 0, !.claimed = TRUE]
     ELSE [stake EXCEPT !.countdown = newCountdown]

\* The map callback of the interval (lines 1360-1372) on one stake.
tickStake(stake) ==
  LET newCountdown == stake.countdown - 1
  IN IF stake.claimed THEN stake
     ELSE IF CountdownExpired(newCountdown)
     THEN [stake EXCEPT !.countdown = 0, !.claimed = TRUE]
     ELSE [stake EXCEPT !.countdown = newCountdown]

\* The claimed area made of a stake.
AreaOf(stake) == [id |-> stake.id, direction |-> stake.direction, parentId |-> stake.parentId]

\* The interval callback: every countdown loses a tenth; a stake whose
\* countdown has run out is appended to claimedAreas and leaves placedStakes.
\* The clock is kept only as far as ids compare: by the time the interval
\* fires it has moved past every id given so far.
StakeTick ==
  /\ stakeTimer
  /\ LET updated == [i \in 1..Len(placedStakes) |-> tickStake(placedStakes[i])]
         claimed == FilterIdx(updated, {i \in 1..Len(updated) : updated[i].claimed}, 1)
         rest == FilterIdx(updated, {i \in 1..Len(updated) : ~updated[i].claimed}, 1)
     IN /\ placedStakes' = rest
        /\ claimedAreas' = claimedAreas \o [i \in 1..Len(claimed) |-> AreaOf(claimed[i])]
        /\ stakeTimer' = stakeTimerEffect(rest)
  /\ now' = IF \E i \in 1..Len(placedStakes) : placedStakes[i].id = now THEN now + 1 ELSE now
  /\ UNCHANGED <<designVars, shapesHistory, settingVars, fiefMode, fiefType, fiefWidth,
                 fiefHeight, fiefPosition, fiefPadding, stakesInventory, draggingStake,
                 placeVars, isLocked, groupVars, clipboard, mousePosition, itemVars,
                 savedPatterns, probe, codecVars, undoLog, events>>

DirectionOrder == <<"top", "bottom", "left", "right">>

\* The position of the area next to parent in a direction.
NeighbourPos(parent, direction, fiefW, fiefH) ==
  LET r == ClaimRect([id |-> NoId, direction |-> direction], parent, fiefW, fiefH)
  IN Pt(r.x, r.y)

\* The loop of getStakeDropZones over the areas and their four directions:
\* cands is the list of <<area, direction>> still to visit.
RECURSIVE ZonesFrom(_, _, _, _, _)
ZonesFrom(cands, occupied, zones, fiefW, fiefH) ==
  IF cands = <<>> THEN zones
  ELSE LET area == Head(cands)[1]
           dir == Head(cands)[2]
           pos == NeighbourPos(area, dir, fiefW, fiefH)
       IN IF pos \in occupied THEN ZonesFrom(Tail(cands), occupied, zones, fiefW, fiefH)
          ELSE ZonesFrom(Tail(cands), occupied \cup {pos},
                         Append(zones, [parentId |-> area.id, direction |-> dir,
                                        x |-> pos.x, y |-> pos.y]),
                         fiefW, fiefH)

\* getStakeDropZones(): no zone outside fief mode; the zones are rendered for
\* a placed fief only.
getStakeDropZones ==
  IF ~fiefMode \/ fiefPosition = None THEN <<>> ELSE
  LET fiefW == (fiefWidth * CELL_SIZE * U) \div 2
      fiefH == (fiefHeight * CELL_SIZE * U) \div 2
      areas == getBuildableAreas
      areaMap == ClaimedRects(placedStakes, areas, fiefW, fiefH)
      parentOf(stake) == {i \in 1..Len(areaMap) : areaMap[i].id = stake.parentId}
      occupied ==
        {Pt(areas[i].x, areas[i].y) : i \in 1..Len(areas)}
        \cup {NeighbourPos(areaMap[CHOOSE i \in parentOf(placedStakes[k]) :
                                     \A j \in parentOf(placedStakes[k]) : j <= i],
                           placedStakes[k].direction, fiefW, fiefH) :
                k \in {k \in 1..Len(placedStakes) : parentOf(placedStakes[k]) # {}}}
      cands == [n \in 1..(4 * Len(areas)) |->
                  <<areas[((n - 1) \div 4) + 1], DirectionOrder[((n - 1) % 4) + 1]>>]
  IN ZonesFrom(cands, occupied, <<>>, fiefW, fiefH)

\* handleFiefDrop with a fief of fiefTypeValue dragged from the palette and
\* dropped at p.
handleFiefDrop(fiefTypeValue, p) ==
  LET fiefW == (FiefDefaultSize(fiefTypeValue) * CELL_SIZE * U) \div 2
      fiefH == fiefW
      cell == CELL_SIZE * U
  IN /\ fiefType' = fiefTypeValue
     /\ fiefWidth' = FiefDefaultSize(fiefTypeValue)
     /\ fiefHeight' = FiefDefaultSize(fiefTypeValue)
     /\ fiefPosition' = Some(Pt(RoundDiv(p.x - fiefW \div 2, cell) * cell,
                                RoundDiv(p.y - fiefH \div 2, cell) * cell))
     /\ fiefMode' = TRUE
     /\ stakesInventory' = MAX_STAKES
     /\ claimedAreas' = <<>>
     /\ placedStakes' = <<>>
     /\ stakeTimer' = stakeTimerEffect(<<>>)
     /\ UNCHANGED <<designVars, shapesHistory, settingVars, fiefPadding, draggingStake,
                    placeVars, isLocked, groupVars, clipboard, mousePosition, itemVars,
                    savedPatterns, now, probe, codecVars, undoLog>>

\* handleClearFief (the button is shown for a placed fief); fiefMode turning
\* false runs the reset effect of lines 1327-1335.
handleClearFief ==
  /\ fiefMode /\ fiefPosition # None
  /\ fiefMode' = FALSE
  /\ fiefPosition' = None
  /\ fiefType' = "standard"
  /\ fiefWidth' = FiefDefaultSize("standard")
  /\ fiefHeight' = FiefDefaultSize("standard")
  /\ fiefPadding' = 0
  /\ stakesInventory' = MAX_STAKES
  /\ claimedAreas' = <<>>
  /\ placedStakes' = <<>>
  /\ draggingStake' = FALSE
  /\ stakeTimer' = stakeTimerEffect(<<>>)
  /\ UNCHANGED <<designVars, shapesHistory, settingVars, placeVars, isLocked, groupVars,
                 clipboard, mousePosition, itemVars, savedPatterns, now, probe, codecVars,
                 undoLog>>

stakeFrame == <<designVars, shapesHistory, settingVars, fiefMode, fiefType, fiefWidth,
                fiefHeight, fiefPosition, fiefPadding, placeVars, isLocked, groupVars,
                clipboard, mousePosition, itemVars, savedPatterns, now, probe, codecVars,
                undoLog>>

\* handleStakeDragStart (the inventory is shown for a placed fief)
handleStakeDragStart ==
  /\ fiefMode /\ fiefPosition # None
  /\ stakesInventory > 0
  /\ draggingStake' = TRUE
  /\ UNCHANGED <<stakeFrame, stakesInventory, claimedAreas, placedStakes, stakeTimer>>

\* handleStakeDragEnd
handleStakeDragEnd ==
  /\ draggingStake
  /\ draggingStake' = FALSE
  /\ UNCHANGED <<stakeFrame, stakesInventory, claimedAreas, placedStakes, stakeTimer>>

\* handleDropZoneDrop(e, zone) on the z-th drop zone
handleDropZoneDrop(z) ==
  /\ fiefMode /\ fiefPosition # None
  /\ draggingStake /\ stakesInventory > 0
  /\ LET zone == getStakeDropZones[z]
         newStake == [id |-> now, direction |-> zone.direction, parentId |-> zone.parentId,
                      countdown |-> STAKE_COUNTDOWN * 10, claimed |-> FALSE]
     IN /\ placedStakes' = Append(placedStakes, newStake)
        /\ stakeTimer' = stakeTimerEffect(Append(placedStakes, newStake))
  /\ stakesInventory' = stakesInventory - 1
  /\ draggingStake' = FALSE
  /\ UNCHANGED <<stakeFrame, claimedAreas>>

\* handleCancelStake(stakeId)
handleCancelStake(stakeId) ==
  LET rest == FilterIdx(placedStakes,
                        {i \in 1..Len(placedStakes) : placedStakes[i].id # stakeId}, 1)
  IN /\ placedStakes' = rest
     /\ stakeTimer' = stakeTimerEffect(rest)
     /\ stakesInventory' = stakesInventory + 1
     /\ UNCHANGED <<stakeFrame, claimedAreas, draggingStake>>

\* A click on the used inventory slot i (counted from 0) that shows a claimed
\* area (lines 4303-4308).
RemoveClaim(i) ==
  LET usedIndex == i - stakesInventory
  IN /\ fiefMode /\ fiefPosition # None
     /\ usedIndex >= 0 /\ usedIndex < Len(claimedAreas)
     /\ claimedAreas' = FilterIdx(claimedAreas,
                                  {k \in 1..Len(claimedAreas) :
                                     claimedAreas[k].id # claimedAreas[usedIndex + 1].id}, 1)
     /\ stakesInventory' = stakesInventory + 1
     /\ UNCHANGED <<stakeFrame, placedStakes, draggingStake, stakeTimer>>

\* The directions of the drop zones the stakes are dropped on.
\* A click on a pending claim's cancel button that arrives after the interval
\* callback has promoted the claim and before the panel is rendered again:
\* the callback's updates (lines 1357-1377) followed by handleCancelStake.
CancelBeforeRender(stakeId) ==
  /\ stakeTimer
  /\ LET updated == [i \in 1..Len(placedStakes) |-> tickStake(placedStakes[i])]
         claimed == FilterIdx(updated, {i \in 1..Len(updated) : updated[i].claimed}, 1)
         ticked == FilterIdx(updated, {i \in 1..Len(updated) : ~updated[i].claimed}, 1)
         rest == FilterIdx(ticked, {i \in 1..Len(ticked) : ticked[i].id # stakeId}, 1)
     IN /\ \E i \in 1..Len(claimed) : claimed[i].id = stakeId
        /\ placedStakes' = rest
        /\ claimedAreas' = claimedAreas \o [i \in 1..Len(claimed) |-> AreaOf(claimed[i])]
        /\ stakeTimer' = stakeTimerEffect(rest)
  /\ stakesInventory' = stakesInventory + 1
  /\ now' = IF \E i \in 1..Len(placedStakes) : placedStakes[i].id = now THEN now + 1 ELSE now
  /\ UNCHANGED <<designVars, shapesHistory, settingVars, fiefMode, fiefType, fiefWidth,
                 fiefHeight, fiefPosition, fiefPadding, draggingStake, placeVars, isLocked,
                 groupVars, clipboard, mousePosition, itemVars, savedPatterns, probe,
                 codecVars, undoLog>>

StakeDropDirections == {"right", "bottom"}

\* A session with the fief panel is followed for MaxStakeEvents user events.
MaxStakeEvents == 6

StakeEvent(A) == events < MaxStakeEvents /\ events' = events + 1 /\ A

NextStake ==
  \/ StakeTick
  \/ StakeEvent(handleFiefDrop("standard", PointA))
  \/ StakeEvent(handleClearFief)
  \/ StakeEvent(handleStakeDragStart)
  \/ StakeEvent(handleStakeDragEnd)
  \/ \E z \in 1..Len(getStakeDropZones) :
       getStakeDropZones[z].direction \in StakeDropDirections /\ StakeEvent(handleDropZoneDrop(z))
  \/ \E k \in 1..Len(placedStakes) : StakeEvent(handleCancelStake(placedStakes[k].id))
  \/ \E k \in 1..Len(placedStakes) : StakeEvent(CancelBeforeRender(placedStakes[k].id))
  \/ \E i \in 0..(MAX_STAKES - 1) : StakeEvent(RemoveClaim(i))
  \/ StakeEvent(handleClear)

SpecStake == Init /\ [][NextStake]_vars

\* C16: the countdown timer exists exactly while at least one claim is
\* pending: in every reachable state the 100 ms interval is active if and only
\* if the pending-claim list is non-empty (started with the first pending
\* claim; cleared when the list empties by promotion, cancel, fief clear or
\* design clear).
C16_TimerIffPending == stakeTimer <=> (placedStakes # <<>>)

\* The list has emptied by promotion and the interval is gone.
C16_Witness ==
  /\ claimedAreas # <<>> /\ placedStakes = <<>> /\ ~stakeTimer
  /\ stakesInventory = MAX_STAKES - 1

\* Fair ticking: the interval callback runs whenever the interval stays set.
SpecStakeFair == Init /\ [][NextStake]_vars /\ WF_vars(StakeTick)

\* The ids (Date.now() values) a stake can get in a session.
StakeIds == 1..MaxStakeEvents

Pending(id) == \E k \in 1..Len(placedStakes) : placedStakes[k].id = id

\* A step that adds claimed areas adds exactly one area, with the same id,
\* direction and parent, for each pending claim whose countdown runs out with
\* this tick, in order, and keeps every other pending claim pending.
PromotionRule ==
  Len(claimedAreas') > Len(claimedAreas) =>
    LET due == {k \in 1..Len(placedStakes) :
                  CountdownExpired(placedStakes[k].countdown - 1)}
        promoted == FilterIdx(placedStakes, due, 1)
        kept == FilterIdx(placedStakes, (1..Len(placedStakes)) \ due, 1)
    IN /\ due # {}
       /\ claimedAreas' = claimedAreas \o [i \in 1..Len(promoted) |-> AreaOf(promoted[i])]
       /\ Len(placedStakes') = Len(kept)
       /\ \A i \in 1..Len(kept) :
            /\ AreaOf(placedStakes'[i]) = AreaOf(kept[i])
            /\ ~CountdownExpired(placedStakes'[i].countdown)

\* C17: every pending claim eventually leaves the pending state: under fair
\* ticking a claim placed with a 5-second countdown is, unless cancelled or
\* reset first, promoted to exactly one permanent claimed area with the same
\* id, direction and parent once its countdown has run out, and is never
\* promoted while its countdown is still above zero.
C17_PendingClaimsResolve ==
  /\ \A id \in StakeIds : Pending(id) ~> ~Pending(id)
  /\ [][PromotionRule]_vars
  /\ [](\A k \in 1..Len(placedStakes) :
          /\ placedStakes[k].id \in StakeIds
          /\ placedStakes[k].countdown \in 0..(STAKE_COUNTDOWN * 10))

\* One claim has been promoted while a later one is still counting down.
C17_Witness ==
  /\ Len(claimedAreas) = 1 /\ Len(placedStakes) = 1
  /\ claimedAreas[1].direction = "right" /\ claimedAreas[1].parentId = MAIN
  /\ placedStakes[1].parentId = claimedAreas[1].id
  /\ placedStakes[1].countdown < STAKE_COUNTDOWN * 10

(***************************************************************************)
(* Interrupted gestures.                                                   *)
(***************************************************************************)
\* A group drag or group rotation is in progress.
GroupGesture == isLocked /\ (isDraggingGroup \/ isRotatingGroup) /\ draggedGroupIds # {}

\* C18: a group drag or group rotation in lock mode is cancelled when the
\* pointer leaves the canvas or the other mouse button is pressed before the
\* release: after either event the gesture is no longer in progress.
C18_GroupGestureCancelled ==
  [][GroupGesture /\ (handleMouseLeave \/ \E shiftKey \in BOOLEAN :
                                            handleMouseDown("right", shiftKey))
       => ~GroupGesture']_vars

\* A single-shape placement gesture is in progress.
PlacementGesture == isRotating /\ baseVertices # <<>>

\* C19: a single-shape placement gesture is cancelled when, before the
\* release, the pointer leaves the canvas or a button other than the one that
\* started it (left, right or middle) is pressed: after either event the
\* gesture is over, so that no release adds a shape on account of it.
C19_PlacementGestureCancelled ==
  [][PlacementGesture
       /\ \/ handleMouseLeave
          \/ handleMiddleClick
          \/ \E button \in {"left", "right"} \ {rotatingButton}, shiftKey \in BOOLEAN :
               handleMouseDown(button, shiftKey)
       => ~PlacementGesture']_vars

(***************************************************************************)
(* Rejected placements, with a fief on the canvas.                         *)
(***************************************************************************)
NextPlace ==
  \/ Event(handleFiefDrop("standard", PointA))
  \/ \E p \in Points : Event(handleMouseMove(p))
  \/ \E button \in {"left", "right"} : Event(handleMouseDown(button, FALSE))
  \/ \E button \in {"left", "right"} : Event(handleMouseUp(button))
  \/ Event(handleMiddleClick)
  \/ Event(SetMiddleClickAction("square"))
  \/ Event(KeyL)

SpecPlace == Init /\ [][NextPlace]_vars

\* The candidate lies outside the active buildable area.
OutsideBuildableArea(verts) ==
  fiefMode /\ \E i \in 1..Len(verts) : ~isPointInBuildableArea(verts[i].x, verts[i].y)

\* The candidate overlaps a shape of the active floor.
OverlapsExisting(verts, type) ==
  \E k \in 1..Len(shapes) :
    \/ CoincidentWith(verts, shapes[k])
    \/ PolygonsCollide(IF type = "corner"
                       THEN getCornerCollisionVerts(verts[1], verts[2], verts[3],
                                                    CornerStyleOf(buildingType))
                       ELSE verts,
                       getCollisionVertices(shapes[k]))

Rejected(verts, type) == OutsideBuildableArea(verts) \/ OverlapsExisting(verts, type)

\* The release of the gesture's button would place a rejected candidate.
RejectedRelease(button) ==
  /\ ~isDraggingPlacedItem
  /\ ~(isLocked /\ (isDraggingGroup \/ isRotatingGroup) /\ draggedGroupIds # {})
  /\ PlacementGesture /\ button = rotatingButton
  /\ Rejected(rotateVertices(baseVertices, rotationAngle), rotationShapeType)

\* A middle click at the pointer would place a rejected candidate.
RejectedMiddleClick ==
  /\ middleClickAction # "delete"
  /\ Rejected(proposedVertices(mousePosition.x, mousePosition.y, middleClickAction),
              middleClickAction)

\* C20: a rejected placement only suppresses the commit: when the candidate
\* overlaps an existing shape or lies outside the active buildable area, the
\* release of the button, or the middle click, leaves the shape lists of all
\* floors and the undo history unchanged, and the release resets the
\* placement gesture state.
C20_RejectedPlacementOnlySuppresses ==
  [][/\ \A button \in {"left", "right"} :
          RejectedRelease(button) /\ handleMouseUp(button)
            => /\ UNCHANGED <<allFloorShapes, shapesHistory>>
               /\ ~isRotating' /\ rotatingButton' = NULL
               /\ baseVertices' = <<>> /\ rotationAngle' = 0
     /\ RejectedMiddleClick /\ handleMiddleClick
          => UNCHANGED <<allFloorShapes, shapesHistory>>]_vars

\* A shape stands inside the fief and the button is held on a candidate that
\* lies outside the buildable area; the release is still to come.
C20_Witness ==
  /\ events < MaxEvents
  /\ fiefMode /\ Len(shapes) = 1 /\ shapesHistory # <<>>
  /\ RejectedRelease("left")
  /\ OutsideBuildableArea(rotateVertices(baseVertices, rotationAngle))
  /\ ~OverlapsExisting(rotateVertices(baseVertices, rotationAngle), rotationShapeType)

(***************************************************************************)
(* Group transforms.                                                       *)
(***************************************************************************)
\* C21: group transforms are validated with the boundary constraint: with
\* the fief active, a release whose transformed group has a vertex outside
\* every buildable rectangle leaves the shapes where they were.
C21_GroupTransformRespectsBoundary ==
  [][\A button \in {"left", "right"} :
       /\ GroupGesture /\ ~isDraggingPlacedItem
       /\ \E t \in 1..Len(groupOutcome.shapes) :
            OutsideBuildableArea(groupOutcome.shapes[t].newVerts)
       /\ handleMouseUp(button)
       => UNCHANGED allFloorShapes]_vars

\* Committed layouts for group drags: a group of two squares under PointB,
\* and to the left a square B at distance 5 (or overlapping by 5) from where
\* a drag to PointA takes the group, with or without a square C below B that
\* reaches 2 further to the right than B.
GroupLayouts ==
  {<<SquareAt(215, 25, 1), SquareAt(215, 75, 2), SquareAt(bx, 25, 3)>>
     \o (IF withC THEN <<SquareAt(bx + 2, 85, 4)>> ELSE <<>>) :
     bx \in {-20, -10}, withC \in BOOLEAN}

InitGroup ==
  /\ \E layout \in GroupLayouts : allFloorShapes = [EmptyFloors EXCEPT ![0] = layout]
  /\ currentFloor = 0
  /\ allFloorItems = EmptyFloors
  /\ InitSettings
  /\ InitFief
  /\ InitEditor

NextGroup ==
  \/ Event(KeyL)
  \/ Event(ToggleGrid)
  \/ \E p \in Points : Event(handleMouseMove(p))
  \/ \E shiftKey \in BOOLEAN : Event(handleMouseDown("left", shiftKey))
  \/ Event(handleMouseUp("left"))

SpecGroup == InitGroup /\ [][NextGroup]_vars

\* The dragged group before and after the vertex snap.
dragPreSnap ==
  LET groupShapes == getShapesByIds(draggedGroupIds)
      moved == [i \in 1..Len(groupShapes) |->
                  Transformed(groupShapes[i],
                              offsetVertices(groupShapes[i].verts, dragOffset.x, dragOffset.y))]
  IN IF gridEnabled THEN snapGroupBoundingBoxToGrid(moved) ELSE moved

dragSnapped == snapGroupToEdges(dragPreSnap, draggedGroupIds)

\* A group drag is about to be released.
DragRelease == GroupGesture /\ isDraggingGroup /\ ~isRotatingGroup /\ ~isDraggingPlacedItem

\* C22: on releasing a group drag whose vertex-snapped position overlaps a
\* shape outside the group, the snap is discarded: the group is committed at
\* the position before the snap when that position has no overlap, and
\* otherwise no shape is changed and nothing is pushed onto the undo history.
C22_SnapFallsBackToPreSnap ==
  [][\A button \in {"left", "right"} :
       /\ DragRelease
       /\ checkGroupOverlap(dragSnapped, draggedGroupIds)
       /\ handleMouseUp(button)
       => IF checkGroupOverlap(dragPreSnap, draggedGroupIds)
          THEN UNCHANGED <<allFloorShapes, shapesHistory>>
          ELSE /\ allFloorShapes' = [allFloorShapes EXCEPT
                                       ![currentFloor] = movedGroup(dragPreSnap)]
               /\ shapesHistory' = saveToHistory]_vars

\* The group stands where the drag left it, 5 away from square B, after a
\* release whose snap onto B would have overlapped square C.
C22_Witness ==
  /\ Len(shapes) = 4 /\ Len(shapesHistory) = 1 /\ ~isDraggingGroup
  /\ shapes[3].verts = SquareAt(-20, 25, 3).verts
  /\ shapes[1].verts = offsetVertices(SquareAt(215, 25, 1).verts, -180 * U, 0)
  /\ shapes[2].verts = offsetVertices(SquareAt(215, 75, 2).verts, -180 * U, 0)

(***************************************************************************)
(* Degenerate geometry.                                                    *)
(***************************************************************************)
\* getShapeEdges raises a TypeError: the corner branch destructures three
\* vertices from the list and reads end1.x and end2.x.
getShapeEdgesThrows(shape) == shape.type = "corner" /\ Len(shape.verts) < 3

\* getCollisionVertices raises a TypeError: getCornerCollisionVerts reads
\* the coordinates of verts[0], verts[1] and verts[2].
getCollisionVerticesThrows(shape) == shape.type = "corner" /\ Len(shape.verts) < 3

\* C23: degenerate geometry is skipped, never raised: no shape of the
\* committed lists makes edge extraction or collision raise an exception.
C23_DegenerateShapesSkipped ==
  \A f \in Floors : \A i \in 1..Len(allFloorShapes[f]) :
    /\ ~getShapeEdgesThrows(allFloorShapes[f][i])
    /\ ~getCollisionVerticesThrows(allFloorShapes[f][i])

(***************************************************************************)
(* Stake accounting.                                                       *)
(***************************************************************************)
\* C24: stakes are conserved.  The part that no stake is ever created: the
\* inventory, the pending claims and the claimed areas never add up to more
\* than MAX_STAKES, and the inventory stays within 0..MAX_STAKES.
C24_StakesConserved ==
  /\ stakesInventory + Len(placedStakes) + Len(claimedAreas) <= MAX_STAKES
  /\ stakesInventory \in 0..MAX_STAKES

(***************************************************************************)
(* Fief settings of a loaded link.                                         *)
(***************************************************************************)
\* C25: whenever fief mode is on, a fief position is set, so that the
\* buildable-area check finds an area list.
C25_FiefModeHasPosition == fiefMode => fiefPosition # None

\* C26: decode restores everything encode wrote: after the link just copied
\* is opened, every setting that getCompressedState put into the payload
\* (building type, click assignments, fief mode, position, type and padding,
\* current floor) has the encoded value, and every floor has the items that
\* were sent.
C26_DecodeRestoresSettings ==
  (loadStatus = "loaded" /\ sent # None /\ wire # None) =>
    LET w == wire[1]
    IN /\ w.b # None => buildingType = buildingFromCode(w.b[1].n)
       /\ w.l # None => leftClickShape = shapeFromCode(w.l[1].n)
       /\ w.r # None => rightClickShape = shapeFromCode(w.r[1].n)
       /\ w.m # None => middleClickAction = shapeFromCode(w.m[1])
       /\ w.fm # None => /\ fiefMode
                         /\ fiefPosition = Some(Pt(w.fx[1] * U, w.fy[1] * U))
       /\ w.ft # None => fiefType = "advanced"
       /\ w.fp # None => fiefPadding = w.fp[1]
       /\ w.cf # None => currentFloor = w.cf[1]
       /\ \A f \in Floors :
            /\ Len(allFloorItems[f]) = Len(sent[1].items[f])
            /\ \A i \in 1..Len(allFloorItems[f]) :
                 allFloorItems[f][i].itemType = sent[1].items[f][i].itemType

\* C27: the settings decoded from a shared link are the ones in force after
\* startup: after the link just copied is opened, the stakes inventory, the
\* claimed areas and the fief width carried by the payload are the values of
\* the state.
C27_LinkSettingsInForce ==
  (loadStatus = "loaded" /\ sent # None /\ wire # None) =>
    LET w == wire[1]
    IN (w.s # None /\ Len(w.s[1].a) > 0 /\ w.fm # None) =>
         /\ w.si # None => stakesInventory = w.si[1]
         /\ w.ca # None => Len(claimedAreas) = Len(w.ca[1].a)
         /\ w.fw # None => fiefWidth = w.fw[1]

(***************************************************************************)
(* Lock mode and group gestures.                                           *)
(***************************************************************************)
\* C28: a group gesture is in progress only in lock mode: in every reachable
\* state, isDraggingGroup or isRotatingGroup implies isLocked.
C28_GroupGestureOnlyWhenLocked ==
  (isDraggingGroup \/ isRotatingGroup) => isLocked

(***************************************************************************)
(* Chained claims.                                                         *)
(***************************************************************************)
\* C29: every claimed area yields a buildable rectangle: in every reachable
\* state the parent of each entry of claimedAreas is 'main' or a claimed area
\* that precedes it in the list, and getBuildableAreas produces the main fief
\* and one rectangle per claimed area.
C29_EveryClaimHasItsParent ==
  /\ \A k \in 1..Len(claimedAreas) :
       \/ claimedAreas[k].parentId = MAIN
       \/ \E j \in 1..(k - 1) : claimedAreas[j].id = claimedAreas[k].parentId
  /\ (fiefMode /\ fiefPosition # None) =>
       Len(getBuildableAreas) = 1 + Len(claimedAreas)

(***************************************************************************)
(* Floors.                                                                 *)
(***************************************************************************)
\* A design with shapes on three floors and an item on floor 0: what a press
\* at PointA places stands on floors 0 and 2, what a press at PointB places
\* stands on floor 1.
InitFloors ==
  /\ allFloorShapes = [f \in Floors |-> IF f = 1 THEN <<SquareAt(200, 10, 2)>>
                                        ELSE <<SquareAt(20, 10, 1 + 2 * f)>>]
  /\ allFloorItems =
       [EmptyFloors EXCEPT ![0] = <<[id |-> 9, itemType |-> "spice-generator",
                                     x |-> 1230, y |-> -594]>>]
  /\ currentFloor = 0
  /\ InitSettings
  /\ InitFief
  /\ InitEditor

NextFloors ==
  \/ \E f \in EditFloors : Event(SelectFloor(f))
  \/ \E p \in Points : Event(handleMouseMove(p))
  \/ \E button \in {"left", "right"}, shiftKey \in BOOLEAN :
       Event(handleMouseDown(button, shiftKey))
  \/ Event(handleMouseUp("left"))
  \/ Event(handleMiddleClick)
  \/ Event(KeyL)
  \/ Event(KeyCopy)
  \/ Event(KeyPaste)
  \/ \E n \in 1..Len(savedPatterns), p \in Points : Event(handlePatternDrop(n, p))

SpecFloors == InitFloors /\ [][NextFloors]_vars

\* A step of one of the handlers that place, delete, paste, drop a pattern
\* or transform a group.
FloorEdit ==
  \/ \E button \in {"left", "right"} : handleMouseUp(button)
  \/ \E button \in {"left", "right"}, shiftKey \in BOOLEAN : handleMouseDown(button, shiftKey)
  \/ handleMiddleClick
  \/ KeyPaste
  \/ \E n \in 1..Len(savedPatterns), p \in Points : handlePatternDrop(n, p)

\* The release of the gesture's button would place a candidate that is free
\* on the active floor.
FreeRelease(button) ==
  /\ ~isDraggingPlacedItem
  /\ ~(isLocked /\ (isDraggingGroup \/ isRotatingGroup) /\ draggedGroupIds # {})
  /\ PlacementGesture /\ button = rotatingButton
  /\ ~Rejected(rotateVertices(baseVertices, rotationAngle), rotationShapeType)

\* C30: floors are isolated: placing, deleting, pasting, pattern-dropping or
\* group-transforming shapes while floor f is the active floor leaves the
\* shape lists and item lists of every other floor unchanged, and a candidate
\* that is free of the shapes of floor f is placed whatever the other floors
\* hold.
C30_FloorsIsolated ==
  [][/\ FloorEdit =>
          /\ currentFloor' = currentFloor
          /\ \A f \in Floors \ {currentFloor} :
               /\ allFloorShapes'[f] = allFloorShapes[f]
               /\ allFloorItems'[f] = allFloorItems[f]
     /\ \A button \in {"left", "right"} :
          FreeRelease(button) /\ handleMouseUp(button)
            => Len(allFloorShapes'[currentFloor]) = Len(shapes) + 1]_vars

\* Floor 1 is active, the button is held on a candidate that is free on floor
\* 1 and coincides with a shape of floor 0; the release is still to come.
C30_Witness ==
  /\ events < MaxEvents
  /\ currentFloor = 1
  /\ FreeRelease("left")
  /\ \E k \in 1..Len(allFloorShapes[0]) :
       CoincidentWith(rotateVertices(baseVertices, rotationAngle), allFloorShapes[0][k])

====
